---- MODULE Spec2Model ----
(***************************************************************************)
(* Flask-App-Blueprint: the Session Manager (src/database/core.py), the    *)
(* authorization gate (src/auth.py), the session endpoints                 *)
(* (src/api/session_manager.py) and the generated CRUD routes              *)
(* (src/api/core.py) as one state machine.                                 *)
(*                                                                         *)
(* One action is one HTTP request, run to completion on its thread.        *)
(* The storage handle is a SQLAlchemy Session in its 1.x mode, the one     *)
(* the routes are written for (src/api/core.py:459 "the SAVEPOINT is in    *)
(* a completed state" after session.commit()): commit() and rollback()     *)
(* end the innermost transaction scope, close() ends them all.             *)
(***************************************************************************)
EXTENDS Integers, Sequences, FiniteSets, TLC

----------------------------------------------------------------------------
(* Bounds of the model *)

\* number of uuid4 session ids that can be minted in one behaviour
MaxSessions == 2
\* number of primary keys the storage sequence can hand out
MaxRecords == 2
\* the clock stops here
MaxTime == 5
\* deepest stack of transaction scopes a handle may be left with
MaxDepth == 2

(* Program constants *)

\* SessionManager.timeout_limit: DB_SESSION_TIMEOUT = 30 minutes, a clock tick being ten
timeout_limit == 3
AUTH_SUPER == 0
AUTH_EDITOR == 1
AUTH_VIEWER == 2

None == "None"
\* worker threads of the WSGI server; scoped_session keeps one Session each
Threads == {"t1", "t2"}
\* values of the model's unique column
Names == {"a", "b"}
\* values of the X-API-KEY header (None: header absent)
Headers == {None, "0", "1", "2", "3", "abc"}

\* the uuid4 values, in the order they are minted
SidPool == <<"s1", "s2", "s3", "s4", "s5", "s6">>
uuid4(n) == SidPool[n]
SessionIds == {SidPool[i] : i \in 1..MaxSessions}
RecordIds == 1..MaxRecords
Tombstone == [name |-> "DELETED"]

----------------------------------------------------------------------------
VARIABLES
    now,                     \* datetime.now()
    open_sessions,           \* SessionManager.__open_sessions: id -> handle
    last_action_timestamps,  \* SessionManager.__last_action_timestamps
    last_timeout_check,      \* SessionManager.__last_timeout_check
    objects,                 \* SessionManager._objects: id -> mutation log
    next_sid,                \* next uuid4 to be minted
    tx,                      \* per handle: stack of transaction scopes (write sets)
    storage,                 \* committed rows: id -> record
    next_rid,                \* the primary-key sequence
    resp,                    \* the response to the last request
    hist,                    \* observations about the past, for the properties
    registrar,               \* a generation pass of _register_api_model
    transform,               \* a record on its way through json and ingest_payload
    link,                    \* an ApiLink object
    called,                  \* the last call made on the SessionManager directly
    running                  \* per thread: the SessionManager method it is inside

smvars == <<open_sessions, last_action_timestamps, last_timeout_check, objects, next_sid>>
dbvars == <<tx, storage, next_rid>>
vars == <<now, open_sessions, last_action_timestamps, last_timeout_check, objects,
          next_sid, tx, storage, next_rid, resp, hist, registrar, transform, link, called,
          running>>
\* the parts of the program that are exercised on their own
unitvars == <<registrar, transform, link, called, running>>

----------------------------------------------------------------------------
(* Finite maps *)

EmptyFn == [k \in {} |-> Tombstone]
Put(f, k, v) == [x \in DOMAIN f \cup {k} |-> IF x = k THEN v ELSE f[x]]
Remove(f, k) == [x \in DOMAIN f \ {k} |-> f[x]]
Overlay(f, g) == [k \in DOMAIN f \cup DOMAIN g |-> IF k \in DOMAIN g THEN g[k] ELSE f[k]]
Live(f) == [k \in {x \in DOMAIN f : f[x] # Tombstone} |-> f[k]]

\* The whole program state as one value, threaded through the calls of a handler.
Cur == [open |-> open_sessions, ts |-> last_action_timestamps,
        chk |-> last_timeout_check, objs |-> objects, nsid |-> next_sid,
        tx |-> tx, db |-> storage, nrid |-> next_rid]

Store(s) ==
    /\ open_sessions' = s.open
    /\ last_action_timestamps' = s.ts
    /\ last_timeout_check' = s.chk
    /\ objects' = s.objs
    /\ next_sid' = s.nsid
    /\ tx' = s.tx
    /\ storage' = s.db
    /\ next_rid' = s.nrid

----------------------------------------------------------------------------
(* The storage handle: sqlalchemy.orm.Session *)

RECURSIVE Flat(_)
Flat(stack) ==
    IF Len(stack) = 0 THEN EmptyFn
    ELSE Overlay(Flat(SubSeq(stack, 1, Len(stack) - 1)), stack[Len(stack)])

\* what a query through handle h sees: committed rows plus its own pending writes
View(s, h) == Live(Overlay(s.db, Flat(s.tx[h])))

\* rows another handle has written and not yet committed (row locks)
LockedRows(s, h) == UNION {DOMAIN Flat(s.tx[g]) : g \in Threads \ {h}}
\* unique values another handle's open transaction holds or releases
LockedNames(s, h) ==
    UNION {{Flat(s.tx[g])[r].name : r \in DOMAIN Flat(s.tx[g])}
           \cup {s.db[r].name : r \in DOMAIN Flat(s.tx[g]) \cap DOMAIN s.db}
           : g \in Threads \ {h}}

begin_nested(s, h) == [s EXCEPT !.tx[h] = Append(@, EmptyFn)]

session_commit(s, h) ==
    LET st == s.tx[h]
        n == Len(st)
    IN IF n > 1
       THEN [s EXCEPT !.tx[h] = Append(SubSeq(st, 1, n - 2), Overlay(st[n - 1], st[n]))]
       ELSE [s EXCEPT !.db = Live(Overlay(s.db, st[1])), !.tx[h] = <<EmptyFn>>]

session_rollback(s, h) ==
    LET st == s.tx[h]
        n == Len(st)
    IN IF n > 1
       THEN [s EXCEPT !.tx[h] = SubSeq(st, 1, n - 1)]
       ELSE [s EXCEPT !.tx[h] = <<EmptyFn>>]

session_close(s, h) == [s EXCEPT !.tx[h] = <<EmptyFn>>]

\* a write of the innermost scope
session_write(s, h, rid, rec) ==
    [s EXCEPT !.tx[h][Len(s.tx[h])] = Put(@, rid, rec)]

----------------------------------------------------------------------------
(* SessionManager *)

cleanup_session(s, session_id) ==
    IF session_id \notin DOMAIN s.open
    THEN [s |-> s, err |-> "ValueError"]
    ELSE [s |-> [s EXCEPT !.open = Remove(@, session_id),
                          !.ts = Remove(@, session_id),
                          !.objs = Remove(@, session_id)],
          err |-> ""]

do_timeout(s, session_id) ==
    LET h == s.open[session_id]
    IN cleanup_session(session_close(session_rollback(s, h), h), session_id).s

RECURSIVE timeout_all(_, _)
timeout_all(s, ids) ==
    IF ids = {} THEN s
    ELSE LET i == CHOOSE x \in ids : TRUE
         IN timeout_all(do_timeout(s, i), ids \ {i})

\* _check_timeouts that spares a session until it is idle for more than two
\* timeout intervals
check_timeouts_lenient(s, t) ==
    IF t - s.chk < timeout_limit
    THEN s
    ELSE [timeout_all(s, {i \in DOMAIN s.ts : t - s.ts[i] > 2 * timeout_limit})
            EXCEPT !.chk = t]

\* _check_timeouts without the debounce
check_timeouts_each_call(s, t) ==
    [timeout_all(s, {i \in DOMAIN s.ts : t - s.ts[i] >= timeout_limit}) EXCEPT !.chk = t]

check_timeouts(s, t) ==
    IF t - s.chk < timeout_limit
    THEN s
    ELSE [timeout_all(s, {i \in DOMAIN s.ts : t - s.ts[i] >= timeout_limit})
            EXCEPT !.chk = t]

\* SessionManager.get with the timestamp set for a new id alone
get_without_refresh(s, session_id, thread, t) ==
    LET s1 == check_timeouts(s, t)
    IN IF session_id # None
       THEN IF session_id \in DOMAIN s1.open
            THEN [s |-> s1, err |-> "", id |-> session_id, h |-> s1.open[session_id]]
            ELSE [s |-> s1, err |-> "ValueError", id |-> session_id, h |-> None]
       ELSE [s |-> [s1 EXCEPT !.open = Put(@, uuid4(s1.nsid), thread),
                              !.ts = Put(@, uuid4(s1.nsid), t),
                              !.nsid = @ + 1],
             err |-> "", id |-> uuid4(s1.nsid), h |-> thread]

\* SessionManager.get; thread is the caller's thread, whose scoped Session
\* self.session() returns
get(s, session_id, thread, t) ==
    LET s1 == check_timeouts(s, t)
    IN IF session_id # None
       THEN IF session_id \in DOMAIN s1.open
            THEN [s |-> [s1 EXCEPT !.ts = Put(@, session_id, t)], err |-> "",
                  id |-> session_id, h |-> s1.open[session_id]]
            ELSE [s |-> s1, err |-> "ValueError", id |-> session_id, h |-> None]
       ELSE [s |-> [s1 EXCEPT !.open = Put(@, uuid4(s1.nsid), thread),
                              !.ts = Put(@, uuid4(s1.nsid), t),
                              !.nsid = @ + 1],
             err |-> "", id |-> uuid4(s1.nsid), h |-> thread]

commit_and_close(s, session_id) ==
    IF session_id \notin DOMAIN s.open
    THEN [s |-> s, err |-> "ValueError"]
    ELSE LET h == s.open[session_id]
         IN cleanup_session(session_close(session_commit(s, h), h), session_id)

EmptyLog == [CREATE |-> <<>>, UPDATE |-> <<>>, DELETE |-> <<>>]
InSeq(x, q) == \E i \in 1..Len(q) : q[i] = x

\* cache_record without the membership test
cache_record_appending(s, session_id, action, alias, rid) ==
    LET o1 == IF session_id \in DOMAIN s.objs THEN s.objs
              ELSE Put(s.objs, session_id, EmptyLog)
    IN [s EXCEPT !.objs = [o1 EXCEPT ![session_id][action] =
                                 Append(@, [TYPE |-> alias, DATA |-> rid])]]

cache_record(s, session_id, action, alias, rid) ==
    LET o1 == IF session_id \in DOMAIN s.objs THEN s.objs
              ELSE Put(s.objs, session_id, EmptyLog)
        obj == [TYPE |-> alias, DATA |-> rid]
    IN IF InSeq(obj, o1[session_id][action])
       THEN [s EXCEPT !.objs = o1]
       ELSE [s EXCEPT !.objs = [o1 EXCEPT ![session_id][action] = Append(@, obj)]]

\* json.dumps of the buckets: a record object in a bucket is not serialisable
LogSize(log) == Len(log.CREATE) + Len(log.UPDATE) + Len(log.DELETE)
get_objects(s, session_id, as_dict) ==
    LET result == IF session_id \in DOMAIN s.objs THEN s.objs[session_id] ELSE EmptyLog
    IN IF as_dict /\ LogSize(result) > 0
       THEN [err |-> "TypeError", result |-> EmptyLog]
       ELSE [err |-> "", result |-> result]

----------------------------------------------------------------------------
(* The authorization gate: src/auth.py *)

IntLiterals == {"-1", "0", "1", "2", "3", "2000"}
\* int(actual) of a header string that is an integer literal
int(x) == CASE x = "-1" -> -1 [] x = "0" -> 0 [] x = "1" -> 1 [] x = "2" -> 2 [] x = "3" -> 3
          [] x = "2000" -> 2000

\* check_auth_level with the comparison strict
check_auth_level_strict(required, actual) ==
    IF actual = None THEN FALSE ELSE int(actual) < required

check_auth_level(required, actual) ==
    IF actual = None THEN FALSE ELSE int(actual) <= required

\* The payload of a response: the session id, the record, the page of records
\* or the mutation log it carries
NoResult == [session |-> None, record |-> 0, page |-> {}, total_pages |-> 0,
             total_results |-> 0, log |-> EmptyLog]

\* A handler's result: the state it leaves, the response, and whether it is
\* waiting on a row lock another handle holds (the request does not complete).
Result(s, code, exc, errors, result) ==
    [s |-> s, code |-> code, exc |-> exc, errors |-> errors, result |-> result,
     blocked |-> FALSE, gate |-> "passed"]
Blocked(s) ==
    [s |-> s, code |-> 0, exc |-> "", errors |-> {}, result |-> NoResult, blocked |-> TRUE,
     gate |-> "passed"]

\* require_auth with the level checked after func has run
require_auth_after(level, usr_level, s, r) ==
    IF usr_level # None /\ usr_level \notin IntLiterals
    THEN [Result(s, 500, "ValueError", {}, NoResult) EXCEPT !.gate = "error"]
    ELSE IF check_auth_level(level, usr_level)
         THEN r
         ELSE [Result(r.s, 401, "Unauthorized", {}, NoResult) EXCEPT !.gate = "refused"]

\* require_auth(level)(func): func's result r, or the refusal; gate tells
\* whether func was entered
require_auth(level, usr_level, s, r) ==
    IF usr_level # None /\ usr_level \notin IntLiterals
    THEN [Result(s, 500, "ValueError", {}, NoResult) EXCEPT !.gate = "error"]
    ELSE IF check_auth_level(level, usr_level)
         THEN r
         ELSE [Result(s, 401, "Unauthorized", {}, NoResult) EXCEPT !.gate = "refused"]

----------------------------------------------------------------------------
(* The exposed model and its payload schema: src/util.py, src/api/core.py *)

\* A model exposed with expose_to_api: the primary key and one writable column,
\* which carries a unique constraint (the UniqueViolation the routes handle).

endpoint_alias == "parent"
\* name is a column, children a to-many relationship (SqlMany)
api_fields == {"id", "name", "children"}
\* the rows of the related model; the model has no route that changes them
RelatedRows == {1}
read_only_fields == {"id", "_links"}
\* hasattr(model, key)
model_attrs == api_fields \cup {"_links"}
payload_fields == api_fields \ read_only_fields

NoBody == [nojson |-> TRUE]
\* request bodies: no (or malformed) JSON, or a JSON object
Bodies == {NoBody, [name |-> "a"], [name |-> "b"], [id |-> 1],
           [id |-> 1, name |-> "a"], [_links |-> 1, name |-> "b"], [bogus |-> 1]}

\* _validate_args without the read-only test
validate_args_writable(posted_args) ==
    IF posted_args = NoBody
    THEN {<<"no JSON body", None>>}
    ELSE {<<"not found on model", k>> : k \in DOMAIN posted_args \ model_attrs}

validate_args(posted_args) ==
    IF posted_args = NoBody
    THEN {<<"no JSON body", None>>}
    ELSE {<<"not found on model", k>> : k \in DOMAIN posted_args \ model_attrs}
         \cup {<<"is read-only", k>> : k \in (DOMAIN posted_args \cap model_attrs) \ payload_fields}

\* bodies that set the to-many relationship, keys in the order name, children
RelationBodies == {[name |-> "b", children |-> <<1>>], [name |-> "b", children |-> <<1, 2>>],
                   [name |-> "a", children |-> <<2, 3>>]}

\* str(id)
str(i) == CASE i = 1 -> "1" [] i = 2 -> "2" [] i = 3 -> "3"

\* A record of an exposed class as the transform sees it: the scalar fields
\* id and name and, for a class with a to-many relation (Parent), the ids of
\* the related rows in children.
MaxLog == 2
MaxRelated == 3
RelatedIds == 1..MaxRelated
NoRecord == [id |-> 0, name |-> None, children |-> {}]
dataclass_fields(cls) == IF cls = "parent" THEN {"id", "name", "children"} ELSE {"id", "name"}

\* the ids of a collection in the order the relation loads them
RECURSIVE Ascending(_)
Ascending(ids) ==
    IF ids = {} THEN <<>>
    ELSE LET least == CHOOSE i \in ids : \A j \in ids : i <= j
         IN <<least>> \o Ascending(ids \ {least})

\* ApiExposed.json with the collection cut to its first row
json_first_related(record, cls) ==
    [k \in dataclass_fields(cls) |->
        IF k = "children" /\ record.children # {}
        THEN <<Ascending(record.children)[1]>>
        ELSE IF k = "children" THEN <<>> ELSE record[k]]

\* ApiExposed.json: a to-many field as the list of the related ids, any other
\* field as its raw value
json(record, cls) ==
    [k \in dataclass_fields(cls) |->
        IF k = "children" THEN Ascending(record.children) ELSE record[k]]

\* The loop of ApiExposed.ingest_payload over the payload's keys: a to-many
\* field is set to the rows of `related` its ids match, and a ValueError names
\* the ids that matched none; any other field is set to the raw value.
ingest_record(record, payload, related) ==
    LET raw == [k \in DOMAIN record |->
                  IF k \in DOMAIN payload \ {"children"} THEN payload[k] ELSE record[k]]
        value == IF "children" \in DOMAIN payload THEN payload.children ELSE <<>>
        ids == {value[i] : i \in 1..Len(value)}
        found == ids \cap related
    IN IF "children" \notin DOMAIN payload
       THEN [record |-> raw, err |-> "", missed_ids |-> {}]
       ELSE [record |-> [raw EXCEPT !.children = found],
             err |-> IF Cardinality(found) # Len(value) THEN "ValueError" ELSE "",
             missed_ids |-> ids \ found]

\* ApiExposed.ingest_payload, wrapped by expose_to_api: the session is fetched
\* (a new one when the caller names none, committed and closed at the end),
\* and the payload is loaded to the record. (The rows of the related model
\* that a resolved list re-parents are not tracked.)
ingest_payload(s, payload, usr_session_id, thread, t) ==
    LET g == get(s, usr_session_id, thread, t)
        loaded == ingest_record(NoRecord, payload, RelatedRows)
        c == commit_and_close(g.s, g.id)
    IN [s |-> IF g.err = "" /\ loaded.err = "" /\ usr_session_id = None THEN c.s ELSE g.s,
        err |-> IF g.err # "" THEN g.err ELSE loaded.err,
        errors |-> {<<"Could not find children", str(i)>> : i \in loaded.missed_ids}]

\* a record taken through json and back through ingest_payload
NoTransform ==
    [cls |-> "parent", orig |-> NoRecord, record |-> NoRecord, related |-> {},
     view |-> json(NoRecord, "parent"), pc |-> "idle", err |-> ""]

----------------------------------------------------------------------------
(* ApiLink: src/util.py *)

\* The records a link is bound to: one not yet flushed, whose id is None
\* (written 0), and a stored one.
LinkRecords == {"unsaved", "saved"}
Attributes == {"id", "name"}
getattr(record, attr) ==
    CASE attr = "id" -> IF record = "saved" THEN 1 ELSE IF record = "other" THEN 2 ELSE 0
      [] attr = "name" -> 5

\* the endpoint templates a link is constructed with, the keys of Meta
\* they may name, and str.format over Meta.__dict__
Endpoints == {"api.{endpoint_alias}-one", "api.{endpoint_alias}-list",
              "api.{endpoint_alias}-all", "api.{tablename}-one"}
format(endpoint) ==
    CASE endpoint = "api.{endpoint_alias}-one" -> [err |-> "", endpoint |-> "api.parent-one"]
      [] endpoint = "api.{endpoint_alias}-list" -> [err |-> "", endpoint |-> "api.parent-list"]
      [] endpoint = "api.{endpoint_alias}-all" -> [err |-> "", endpoint |-> "api.parent-all"]
      [] OTHER -> [err |-> "KeyError", endpoint |-> ""]

NoHref == [endpoint |-> "", id |-> 0, query |-> {}, error |-> ""]
\* flask.url_for: the endpoint must be registered and the rule's variables
\* given and not None; other keyword arguments go to the query string
url_for(endpoint, kwargs) ==
    LET given == {k \in DOMAIN kwargs : kwargs[k] # 0}
    IN IF endpoint = "api.parent-list"
       THEN [err |-> "", href |-> [NoHref EXCEPT !.endpoint = endpoint, !.query = given]]
       ELSE IF endpoint = "api.parent-one" /\ "id" \in given
       THEN [err |-> "", href |-> [NoHref EXCEPT !.endpoint = endpoint, !.id = kwargs.id,
                                                 !.query = given \ {"id"}]]
       ELSE [err |-> "BuildError", href |-> NoHref]

NoLinkResult == [href |-> NoHref, rel |-> None, method |-> None]
\* ApiLink.__init__
ApiLink(endpoint, rel, method, record_args) ==
    [endpoint |-> endpoint, rel |-> rel, method |-> method, record_args |-> record_args,
     record |-> None, kwargs |-> [k \in {} |-> 0],
     result |-> NoLinkResult, exc |-> "", pc |-> "built"]
NoLink == [ApiLink("", None, None, [k \in {} |-> ""]) EXCEPT !.pc = "idle"]

for_record(l, record) == [l EXCEPT !.record = record]
add_args(l, kwargs) == [l EXCEPT !.kwargs = Overlay(@, kwargs)]

\* the try block of finalise: the exception it ends with ("" for none)
\* and the keyword arguments it leaves
finalise_try(l) ==
    LET missing == {k \in DOMAIN l.record_args : l.record_args[k] \notin Attributes}
        kwargs == IF l.record = None \/ missing # {} THEN l.kwargs
                  ELSE Overlay(l.kwargs, [k \in DOMAIN l.record_args |->
                                              getattr(l.record, l.record_args[k])])
        f == format(l.endpoint)
        u == url_for(f.endpoint, kwargs)
    IN [kwargs |-> kwargs, href |-> u.href,
        err |-> IF l.record = None THEN "ValueError"
                ELSE IF missing # {} THEN "AttributeError"
                ELSE IF f.err # "" THEN f.err
                ELSE u.err]

\* ApiLink.finalise with rel and method kept in the except block
finalise_keeping_rel(l) ==
    LET try == finalise_try(l)
    IN [l EXCEPT !.kwargs = try.kwargs, !.exc = "", !.pc = "finalised",
                 !.result = [href |-> IF try.err = "" THEN try.href
                                      ELSE [NoHref EXCEPT !.error = try.err],
                             rel |-> l.rel, method |-> l.method]]

\* ApiLink.finalise: the result of the try block, or of the except block,
\* returned from the finally block
finalise(l) ==
    LET try == finalise_try(l)
    IN [l EXCEPT !.kwargs = try.kwargs, !.exc = "", !.pc = "finalised",
                 !.result = IF try.err = ""
                            THEN [href |-> try.href, rel |-> l.rel, method |-> l.method]
                            ELSE [href |-> [NoHref EXCEPT !.error = try.err],
                                  rel |-> None, method |-> None]]

\* the value a JSON object gives a key, None (null) when it has none
Field(posted_args, k) == IF k \in DOMAIN posted_args THEN posted_args[k] ELSE None

\* The detail text of the driver's UniqueViolation, as a sequence of tokens:
\* 'Key (name)=(<value>) already exists.'; text(n) is the value's own text.
OddName == "x)(y"
text(n) == IF n = OddName THEN <<"x", ")", "(", "y">> ELSE <<n>>
message_detail(key, n) ==
    <<"Key ", "(", key, ")", "=", "(">> \o text(n) \o <<")", " already exists.">>

\* re.findall(r'\((.*?)\)', error_message): the texts between each "(" and
\* the first ")" after it, scanning from token i on
RECURSIVE findall(_, _)
findall(m, i) ==
    LET opens == {j \in i..Len(m) : m[j] = "("}
        open == CHOOSE j \in opens : \A k \in opens : j <= k
        closes == {j \in (open + 1)..Len(m) : m[j] = ")"}
        close == CHOOSE j \in closes : \A k \in closes : j <= k
    IN IF opens = {} THEN <<>>
       ELSE IF closes = {} THEN <<>>
       ELSE <<SubSeq(m, open + 1, close - 1)>> \o findall(m, close + 1)

\* the except IntegrityError clause, after session.rollback(): Conflict, with
\* key and value taken from the detail; unpacking other than two groups
\* raises ValueError
unique_violation(key, n) ==
    LET m == message_detail(key, n)
        groups == findall(m, 1)
    IN IF SubSeq(m, 1, 2) = <<"Key ", "(">> /\ m[Len(m)] = " already exists."
       THEN IF Len(groups) = 2
            THEN [err |-> "Conflict", errors |-> {<<"must be unique", key>>}]
            ELSE [err |-> "ValueError", errors |-> {}]
       ELSE [err |-> "Conflict", errors |-> {}]

\* rows of view v, other than row rid, that hold the unique value n
Clash(v, rid, n) == {r \in DOMAIN v \ {rid} : n # None /\ v[r].name = n}

----------------------------------------------------------------------------
(* Session endpoints: src/api/session_manager.py *)

StartSession_get(s, thread, t) ==
    LET g == get(s, None, thread, t)
    IN Result(g.s, 200, "", {}, [NoResult EXCEPT !.session = g.id])

CommitSession_get(s, session_id) ==
    LET o == get_objects(s, session_id, TRUE)
        c == commit_and_close(s, session_id)
    IN IF o.err # "" THEN Result(s, 500, o.err, {}, NoResult)
       ELSE IF c.err = "ValueError" THEN Result(c.s, 400, "BadRequest", {}, NoResult)
       ELSE Result(c.s, 200, "", {}, [NoResult EXCEPT !.log = o.result])

RollbackSession_get(s, session_id, close, t) ==
    LET g == get(s, session_id, None, t)
        o == get_objects(g.s, session_id, TRUE)
        s1 == session_rollback(g.s, g.h)
        s2 == IF close # "n" THEN session_close(s1, g.h) ELSE s1
    IN IF g.err # "" THEN Result(g.s, 500, g.err, {}, NoResult)
       ELSE IF o.err # "" THEN Result(g.s, 500, o.err, {}, NoResult)
       ELSE Result(s2, 200, "", {},
                   [NoResult EXCEPT !.log = o.result,
                                    !.session = IF close = "n" THEN session_id ELSE None])

----------------------------------------------------------------------------
(* Generated routes: src/api/core.py *)

\* The query string of a list request, request.args.to_dict(): key -> value.
\* _session is the handler's usr_session_id.
NoArgs == [k \in {} |-> None]
ListQueries ==
    {NoArgs,
     [_page |-> "x"],
     [_page |-> "0"],
     [_page |-> "2"],
     [_pagelength |-> "x"],
     [_pagelength |-> "-1"],
     [_pagelength |-> "2000"],
     [_page |-> "1", _pagelength |-> "1"],
     [_page |-> "2", _pagelength |-> "1"],
     [_page |-> "1", _pagelength |-> "2"],
     [_page |-> "1", _pagelength |-> "1", name |-> "a"],
     [_sortby |-> "bogus"],
     [_sortby |-> "name", _pagelength |-> "1"],
     [_query |-> "a"],
     [_sort_asc |-> "1"],
     [name |-> "a"],
     [bogus |-> "1"],
     [bogus |-> "1", _page |-> "2"],
     [bogus |-> "1", other |-> "2"],
     [bogus |-> "1", other |-> "2", name |-> "a"]}

MAX_PAGE_SIZE == 1000
per_page == 100
Min(a, b) == IF a <= b THEN a ELSE b

\* request_args.pop(key, None)
arg(q, key) == IF key \in DOMAIN q THEN q[key] ELSE None

\* _page and _pagelength of the query string: int() raises ValueError on a
\* value that is no integer literal
pagination_args(q) ==
    LET p == arg(q, "_page")
        l == arg(q, "_pagelength")
    IN IF (p # None /\ p \notin IntLiterals) \/ (l # None /\ l \notin IntLiterals)
       THEN [err |-> "ValueError", _page |-> 0, _pagelength |-> 0]
       ELSE [err |-> "",
             _page |-> IF p = None THEN 1 ELSE int(p),
             _pagelength |-> Min(IF l = None THEN per_page ELSE int(l), MAX_PAGE_SIZE)]

\* the keys the handler pops before it takes the rest as filters
popped_args == {"_page", "_pagelength", "_sortby", "_query", "_sort_asc"}
remaining_args(q) == [k \in DOMAIN q \ popped_args |-> q[k]]

\* the filter loop with the first unknown name alone reported
filter_errors_first(request_args) ==
    LET unknown == DOMAIN request_args \ model_attrs
    IN IF unknown = {} THEN {}
       ELSE {<<"not found", CHOOSE k \in unknown : TRUE>>}

\* the filter loop's errors: one per key that names no attribute of the model
filter_errors(request_args) ==
    {<<"not found", k>> : k \in DOMAIN request_args \ model_attrs}

\* rows of view v that pass the equality filters
Matching(v, filters) ==
    {r \in DOMAIN v : \A k \in DOMAIN filters \cap {"name"} : v[r].name = filters[k]}

\* generic_search: some column, cast to a string, holds the pattern (patterns
\* of one character)
generic_search(v, rows, pattern) ==
    {r \in rows : pattern = str(r) \/ InSeq(pattern, text(v[r].name))}

\* ORDER BY: the collation of the unique column's values, or the primary key
collate(n) == CASE n = "a" -> 1 [] n = "b" -> 2 [] OTHER -> 3
Before(v, _sortby, x, y) ==
    IF _sortby = "name" /\ collate(v[x].name) # collate(v[y].name)
    THEN collate(v[x].name) < collate(v[y].name)
    ELSE x < y

\* paginate with total counted over the window's rows
paginate_window_count(v, rows, _sortby, page, pagelength) ==
    LET items == {r \in rows :
                    LET k == Cardinality({x \in rows : Before(v, _sortby, x, r)})
                    IN k >= (page - 1) * pagelength /\ k < page * pagelength}
    IN IF page < 1 \/ pagelength < 0 \/ (items = {} /\ page # 1)
       THEN [err |-> "NotFound", items |-> {}, pages |-> 0, total |-> 0]
       ELSE [err |-> "", items |-> items,
             pages |-> IF pagelength = 0 THEN 0
                       ELSE (Cardinality(items) + pagelength - 1) \div pagelength,
             total |-> Cardinality(items)]

\* BaseQuery.paginate(page, per_page) of the ordered query, and query.count()
paginate(v, rows, _sortby, page, pagelength) ==
    LET items == {r \in rows :
                    LET k == Cardinality({x \in rows : Before(v, _sortby, x, r)})
                    IN k >= (page - 1) * pagelength /\ k < page * pagelength}
    IN IF page < 1 \/ pagelength < 0 \/ (items = {} /\ page # 1)
       THEN [err |-> "NotFound", items |-> {}, pages |-> 0, total |-> 0]
       ELSE [err |-> "", items |-> items,
             pages |-> IF pagelength = 0 THEN 0
                       ELSE (Cardinality(rows) + pagelength - 1) \div pagelength,
             total |-> Cardinality(rows)]

\* List.get and ListDetailed.get
handle_paginated_request(s, thread, q, usr_session_id, t) ==
    LET a == pagination_args(q)
        _sortby == IF arg(q, "_sortby") = None THEN "id" ELSE arg(q, "_sortby")
        _query == arg(q, "_query")
        request_args == remaining_args(q)
        g == get(s, usr_session_id, thread, t)
        errors == filter_errors(request_args)
        v == View(g.s, g.h)
        filtered == Matching(v, request_args)
        rows == IF _query = None THEN filtered ELSE generic_search(v, filtered, _query)
        results == paginate(v, rows, _sortby, a._page, a._pagelength)
        c == commit_and_close(g.s, g.id)
    IN IF a.err # ""
       THEN Result(s, 400, "BadRequest", {<<"pagination", None>>}, NoResult)
       ELSE IF _sortby \notin model_attrs
       THEN Result(s, 400, "BadRequest", {<<"sort-by", _sortby>>}, NoResult)
       ELSE IF g.err # "" THEN Result(g.s, 500, g.err, {}, NoResult)
       ELSE IF errors # {} THEN Result(g.s, 400, "BadRequest", errors, NoResult)
       ELSE IF results.err # "" THEN Result(g.s, 404, results.err, {}, NoResult)
       ELSE Result(IF usr_session_id = None THEN c.s ELSE g.s, 200, "", {},
                   [NoResult EXCEPT !.page = results.items,
                                    !.total_pages = results.pages,
                                    !.total_results = results.total])

\* One.get
One_get(s, thread, id, usr_session_id, t) ==
    LET g == get(s, usr_session_id, thread, t)
        c == commit_and_close(g.s, g.id)
    IN IF g.err # "" THEN Result(g.s, 500, g.err, {}, NoResult)
       ELSE IF id \notin DOMAIN View(g.s, g.h)
       THEN Result(g.s, 404, "NotFound", {}, NoResult)
       ELSE Result(IF usr_session_id = None THEN c.s ELSE g.s, 200, "", {},
                   [NoResult EXCEPT !.record = id])

\* List.post
List_post(s, thread, posted_args, usr_session_id, t) ==
    LET errors == validate_args(posted_args)
        g == get(s, usr_session_id, thread, t)
        i == ingest_payload(begin_nested(g.s, g.h), posted_args, g.id, thread, t)
        s1 == i.s
        rid == g.s.nrid
        name == Field(posted_args, "name")
        s2 == session_commit(session_write([s1 EXCEPT !.nrid = @ + 1], g.h, rid,
                                           [name |-> name]), g.h)
        s3 == cache_record(s2, g.id, "CREATE", endpoint_alias, rid)
        c == commit_and_close(s3, g.id)
    IN IF errors # {} THEN Result(s, 400, "BadRequest", errors, NoResult)
       ELSE IF g.err # "" THEN Result(g.s, 500, "InternalServerError", {}, NoResult)
       ELSE IF i.err # "" THEN Result(s1, 500, "InternalServerError", {}, NoResult)
       ELSE IF name \in LockedNames(s1, g.h) THEN Blocked(s1)
       ELSE IF Clash(View(s1, g.h), rid, name) # {}
       THEN IF unique_violation("name", name).err = "Conflict"
            THEN Result(session_rollback(s1, g.h), 409, "Conflict",
                        unique_violation("name", name).errors, NoResult)
            ELSE Result(session_rollback(s1, g.h), 500, "InternalServerError", {}, NoResult)
       ELSE Result(IF usr_session_id = None THEN c.s ELSE s3, 201, "", {},
                   [NoResult EXCEPT !.record = rid])

\* One.post
One_post(s, thread, id, posted_args, usr_session_id, t) ==
    LET errors == validate_args(posted_args)
        g == get(s, usr_session_id, thread, t)
        s0 == begin_nested(g.s, g.h)
        i == ingest_payload(s0, posted_args, g.id, thread, t)
        s1 == i.s
        name == Field(posted_args, "name")
        s2 == session_commit(session_write(s1, g.h, id, [name |-> name]), g.h)
        s3 == cache_record(s2, g.id, "UPDATE", endpoint_alias, id)
        c == commit_and_close(s3, g.id)
    IN IF errors # {} THEN Result(s, 400, "BadRequest", errors, NoResult)
       ELSE IF g.err # "" THEN Result(g.s, 400, "BadRequest", {}, NoResult)
       ELSE IF id \notin DOMAIN View(s0, g.h)
       THEN Result(s0, 500, "InternalServerError", {}, NoResult)
       ELSE IF i.err # ""
       THEN \* the attributes set before the failing key stay on the loaded record
            Result(IF "name" \in DOMAIN posted_args
                   THEN session_write(s1, g.h, id, [name |-> name]) ELSE s1,
                   400, "BadRequest", i.errors, NoResult)
       ELSE IF id \in LockedRows(s1, g.h) \/ name \in LockedNames(s1, g.h)
       THEN Blocked(s1)
       ELSE IF Clash(View(s1, g.h), id, name) # {}
       THEN IF unique_violation("name", name).err = "Conflict"
            THEN Result(session_rollback(s1, g.h), 409, "Conflict",
                        unique_violation("name", name).errors, NoResult)
            ELSE Result(session_rollback(s1, g.h), 400, "BadRequest", {}, NoResult)
       ELSE Result(IF usr_session_id = None THEN c.s ELSE s3, 200, "", {},
                   [NoResult EXCEPT !.record = id])

\* One.delete
One_delete(s, thread, id, usr_session_id, t) ==
    LET g == get(s, usr_session_id, thread, t)
        s1 == begin_nested(g.s, g.h)
        s2 == session_commit(session_write(s1, g.h, id, Tombstone), g.h)
        s3 == cache_record(s2, g.id, "DELETE", endpoint_alias, id)
        c == commit_and_close(s3, g.id)
    IN IF g.err # "" THEN Result(g.s, 500, g.err, {}, NoResult)
       ELSE IF id \notin DOMAIN View(s1, g.h)
       THEN Result(s1, 404, "NotFound", {}, NoResult)
       ELSE IF id \in LockedRows(s1, g.h) THEN Blocked(s1)
       ELSE Result(IF usr_session_id = None THEN c.s ELSE s3, 200, "", {},
                   [NoResult EXCEPT !.record = id])

\* a custom endpoint (CustomApiQuery): a paginated read-only query of the
\* author's, which does not go through the Session Manager
CustomApiResource_get(s, q) ==
    LET a == pagination_args(q)
        v == Live(s.db)
        results == paginate(v, DOMAIN v, "id", a._page, a._pagelength)
    IN IF a.err # ""
       THEN Result(s, 400, "BadRequest", {<<"pagination", None>>}, NoResult)
       ELSE IF results.err # "" THEN Result(s, 404, results.err, {}, NoResult)
       ELSE Result(s, 200, "", {},
                   [NoResult EXCEPT !.page = results.items,
                                    !.total_pages = results.pages,
                                    !.total_results = results.total])

----------------------------------------------------------------------------
(* Schema registration: _register_api_model and _api_routes, src/api/core.py *)

\* The model classes of models.py, each named by its __tablename__. A field
\* annotated with a model class is keyed by the class it names.
ModelNames == {"a", "b", "c"}
\* type-annotated hybrid properties: without a setter, with one, and one that
\* cannot be fetched on the class
HybridProps == {"ro_prop", "rw_prop", "bad_prop"}
\* the order in which the fields of a class are met
FieldOrder == <<"id", "name", "a", "b", "c", "ro_prop", "rw_prop">>

\* The classes a pass can meet: refs is the classes each one's fields are
\* annotated with, props its hybrid properties, read_only what Meta adds to
\* the read-only fields.
PropAssignments ==
    {[m \in ModelNames |-> {}],
     [m \in ModelNames |-> {"ro_prop", "rw_prop"}],
     [m \in ModelNames |-> IF m = "c" THEN {"bad_prop"} ELSE {}]}
Schemas ==
    {[refs |-> g, props |-> p, read_only |-> ro] :
        g \in [ModelNames -> SUBSET ModelNames], p \in PropAssignments,
        ro \in {{}, {"name"}}}

\* model_fields: __dataclass_fields__ and the annotated hybrid properties
model_fields(schema, model) ==
    LET keep(k) == k \in {"id", "name"} \cup schema.refs[model] \cup schema.props[model]
    IN SelectSeq(FieldOrder, keep)

\* expose_to_api.Meta.read_only_fields
meta_read_only_fields(schema) == {"id", "_links"} \cup schema.read_only

\* the payload subset with the read-only fields alone left out
payload_subset_keeping_computed(schema, model, fields) ==
    {k \in fields : k \notin meta_read_only_fields(schema)}

\* the payload subset of api_fields: neither read-only nor a hybrid property
\* without a setter
payload_subset(schema, model, fields) ==
    {k \in fields : /\ k \notin meta_read_only_fields(schema)
                    /\ k \notin schema.props[model] \cap {"ro_prop"}}

\* namespace.models after _api_routes has added the generic models; a name is
\* a pair of the model's name and the suffix of the schema
generic_api_models ==
    [n \in {<<"_links", "">>, <<"record-base", "">>, <<"info-base", "">>,
            <<"pagination", "">>, <<"base", "">>, <<"paginated-info", "">>,
            <<"base-paginated", "">>} |->
        IF n[1] = "record-base" THEN {"id", "_links"} ELSE {}]

\* a call of _register_api_model
Frame(model, model_name, _recursed_models) ==
    [model |-> model, model_name |-> model_name, _recursed_models |-> _recursed_models,
     pc |-> "enter", i |-> 0, fields |-> {}]

\* _api_routes(model, endpoint_alias): a fresh namespace and the first call
Pass(schema, model, alias) ==
    [schema |-> schema, models |-> generic_api_models,
     stack |-> <<Frame(model, alias, <<>>)>>, exc |-> "", log |-> <<>>,
     built |-> <<>>, expanded |-> <<>>]
\* no pass under way: no namespace has been made
NoPass ==
    [schema |-> [refs |-> <<>>, props |-> <<>>, read_only |-> {}],
     models |-> <<>>, stack |-> <<>>, exc |-> "", log |-> <<>>,
     built |-> <<>>, expanded |-> <<>>]

Top(r) == r.stack[Len(r.stack)]
Pop(r) == [r EXCEPT !.stack = SubSeq(@, 1, Len(@) - 1)]
SetTop(r, f) == [r EXCEPT !.stack[Len(r.stack)] = f]

\* the function is entered: the recursion guard and the hybrid properties
register_enter(r) ==
    LET f == Top(r)
    IN IF InSeq(f.model_name, f._recursed_models)
       THEN [Pop(r) EXCEPT !.log = Append(@, <<"warn", f.model_name>>)]
       ELSE IF "bad_prop" \in r.schema.props[f.model]
       THEN [Pop(r) EXCEPT !.exc = "AssertionError"]
       ELSE [SetTop(r, [f EXCEPT !.pc = "fields", !.i = 1])
                EXCEPT !.expanded = Append(@, f.model_name)]

\* one turn of the loop with the sub-model registered whether or not the
\* namespace holds its name
register_field_anew(r) ==
    LET f == Top(r)
        key == model_fields(r.schema, f.model)[f.i]
    IN IF key \notin ModelNames
       THEN SetTop(r, [f EXCEPT !.fields = @ \cup {key}, !.i = @ + 1])
       ELSE [SetTop(r, [f EXCEPT !.pc = "called"])
                EXCEPT !.stack = Append(@, Frame(key, key,
                                                 Append(f._recursed_models, f.model_name)))]

\* one turn of the loop over model_fields
register_field(r) ==
    LET f == Top(r)
        key == model_fields(r.schema, f.model)[f.i]
    IN IF key \notin ModelNames
       THEN SetTop(r, [f EXCEPT !.fields = @ \cup {key}, !.i = @ + 1])
       ELSE IF <<key, "">> \notin DOMAIN r.models
       THEN [SetTop(r, [f EXCEPT !.pc = "called"])
                EXCEPT !.stack = Append(@, Frame(key, key,
                                                 Append(f._recursed_models, f.model_name)))]
       ELSE IF <<key, "-payload">> \in DOMAIN r.models
       THEN SetTop(r, [f EXCEPT !.fields = @ \cup {key}, !.i = @ + 1])
       ELSE [Pop(r) EXCEPT !.exc = "KeyError"]

\* the recursive call has returned: namespace.models[field_name + '-payload']
register_resume(r) ==
    LET f == Top(r)
        key == model_fields(r.schema, f.model)[f.i]
    IN IF <<key, "-payload">> \in DOMAIN r.models
       THEN SetTop(r, [f EXCEPT !.fields = @ \cup {key}, !.i = @ + 1, !.pc = "fields"])
       ELSE [Pop(r) EXCEPT !.exc = "KeyError"]

\* the recursive call has raised: except AssertionError
register_except(r) ==
    LET f == Top(r)
        key == model_fields(r.schema, f.model)[f.i]
    IN IF r.exc = "AssertionError" /\ f._recursed_models = <<>>
       THEN [SetTop(r, [f EXCEPT !.i = @ + 1, !.pc = "fields"])
                EXCEPT !.exc = "", !.log = Append(@, <<"error", key>>)]
       ELSE Pop(r)

\* the loop is over: the schemas are registered to the namespace
register_return(r) ==
    LET f == Top(r)
        full_record == r.models[<<"record-base", "">>] \cup f.fields
        new == [n \in {<<f.model_name, "-payload">>, <<f.model_name, "">>,
                       <<f.model_name, "-response">>, <<f.model_name, "-detailed">>} |->
                  IF n[2] = "-payload" THEN payload_subset(r.schema, f.model, f.fields)
                  ELSE full_record]
    IN [Pop(r) EXCEPT !.models = Overlay(@, new), !.built = Append(@, f.model_name)]

\* where the call on top of the stack stands
At(r, pc) == r.stack # <<>> /\ Top(r).pc = pc
InLoop(r) == At(r, "fields") /\ Top(r).i <= Len(model_fields(r.schema, Top(r).model))

----------------------------------------------------------------------------
(* Requests *)

\* who calls: a request without _session runs on some worker thread, whose
\* scoped Session it gets; with _session the handle is the session's own
Callers == {<<th, None>> : th \in Threads} \cup {<<"t1", sid>> : sid \in SessionIds}

\* the model's bounds on the state a request leaves
InBounds(s) ==
    /\ s.nsid <= MaxSessions + 1
    /\ s.nrid <= MaxRecords + 1
    /\ \A h \in Threads : Len(s.tx[h]) <= MaxDepth

\* What the properties remember of the past:
\*   only_adhoc  no request so far named a session or asked for one
\*   conflicted  the client's sessions a create has been refused in as a duplicate
Observe(usr, route, r) ==
    [only_adhoc |-> hist.only_adhoc /\ usr = None
                    /\ route \notin {"session-new", "session-save", "session-rollback"},
     conflicted |-> IF usr # None /\ route = "list-post" /\ r.code = 409
                    THEN hist.conflicted \cup {usr} ELSE hist.conflicted]

\* A request runs to completion: the state its handler leaves and the response.
\* usr is the _session of the query string.
Respond(usr, route, r) ==
    /\ ~r.blocked
    /\ InBounds(r.s)
    /\ Store(r.s)
    /\ resp' = [code |-> r.code, exc |-> r.exc, errors |-> r.errors, result |-> r.result,
                gate |-> r.gate]
    /\ hist' = Observe(usr, route, r)
    /\ UNCHANGED <<now, unitvars>>

Tick ==
    /\ now < MaxTime
    /\ now' = now + 1
    /\ UNCHANGED <<smvars, dbvars, resp, hist, unitvars>>

\* the clock, up to the first instant past two timeout intervals
Tock ==
    /\ now <= 2 * timeout_limit
    /\ now' = now + 1
    /\ UNCHANGED <<smvars, dbvars, resp, hist, unitvars>>

\* The steps of a generation pass; the application is not serving meanwhile.
Registers(r) ==
    /\ registrar' = r
    /\ UNCHANGED <<now, smvars, dbvars, resp, hist, transform, link, called, running>>

RegEnter == At(registrar, "enter") /\ Registers(register_enter(registrar))
RegField == InLoop(registrar) /\ Registers(register_field(registrar))
RegResume ==
    /\ At(registrar, "called") /\ registrar.exc = ""
    /\ Registers(register_resume(registrar))
RegExcept ==
    /\ At(registrar, "called") /\ registrar.exc # ""
    /\ Registers(register_except(registrar))
RegReturn ==
    /\ At(registrar, "fields") /\ ~InLoop(registrar)
    /\ Registers(register_return(registrar))

\* The record transform on its own: the JSON view is taken, rows of the
\* related model may go, and the view is ingested by a direct call that names
\* no session.
Transforms(x) ==
    /\ transform' = x
    /\ UNCHANGED <<now, resp, hist, registrar, link, called, running>>

TransformJson ==
    /\ transform.pc = "record"
    /\ Transforms([transform EXCEPT !.view = json(transform.record, transform.cls),
                                    !.pc = "view"])
    /\ UNCHANGED <<smvars, dbvars>>

TransformRelatedDeleted(id) ==
    /\ transform.pc = "view" /\ id \in transform.related
    /\ Transforms([transform EXCEPT !.related = @ \ {id}])
    /\ UNCHANGED <<smvars, dbvars>>

\* ingest_payload called with the record's view and a list of ids of the
\* caller's for the relation
TransformListed(thread, value) ==
    LET g == get(Cur, None, thread, now)
        payload == [json(transform.record, transform.cls) EXCEPT !.children = value]
        loaded == ingest_record(transform.record, payload, transform.related)
        c == commit_and_close(g.s, g.id)
    IN /\ transform.pc = "record" /\ transform.cls = "parent"
       /\ Store(IF loaded.err = "" THEN c.s ELSE g.s)
       /\ Transforms([transform EXCEPT !.record = loaded.record, !.err = loaded.err,
                                       !.view = payload, !.pc = "listed"])

TransformIngest(thread) ==
    LET g == get(Cur, None, thread, now)
        loaded == ingest_record(transform.record, transform.view, transform.related)
        c == commit_and_close(g.s, g.id)
    IN /\ transform.pc = "view"
       /\ Store(IF loaded.err = "" THEN c.s ELSE g.s)
       /\ Transforms([transform EXCEPT !.record = loaded.record, !.err = loaded.err,
                                       !.pc = "ingested"])

\* Methods of the session manager called on their own, as the request
\* handlers and any other holder of `session_manager` call them.
Calls(s, c) ==
    /\ InBounds(s)
    /\ Store(s)
    /\ called' = c
    /\ UNCHANGED <<now, resp, hist, registrar, transform, link, running>>

\* `expired`: the ids the call's sweep timed out; `idle`: how long ago the
\* returned session was last used
CallGet(thread, session_id) ==
    LET g == get(Cur, session_id, thread, now)
    IN Calls(g.s, [op |-> "get", id |-> g.id, err |-> g.err, repeat |-> FALSE,
                   expired |-> DOMAIN open_sessions \ DOMAIN check_timeouts(Cur, now).open,
                   idle |-> IF g.err = "" /\ session_id # None
                            THEN now - last_action_timestamps[session_id] ELSE 0])

CallCommitAndClose(session_id) ==
    LET c == commit_and_close(Cur, session_id)
    IN Calls(c.s, [op |-> "commit_and_close", id |-> session_id, err |-> c.err,
                   repeat |-> FALSE, expired |-> {}, idle |-> 0])

\* `repeat`: the entry was in the bucket when the call was made
CallCacheRecord(session_id, action, rid) ==
    LET s == cache_record(Cur, session_id, action, endpoint_alias, rid)
    IN /\ LogSize(s.objs[session_id]) <= MaxLog
       /\ Calls(s, [op |-> "cache_record", id |-> session_id, err |-> "",
                    repeat |-> /\ session_id \in DOMAIN objects
                               /\ InSeq([TYPE |-> endpoint_alias, DATA |-> rid],
                                        objects[session_id][action]),
                    expired |-> {}, idle |-> 0])

CallGetObjects(session_id) ==
    Calls(Cur, [op |-> "get_objects", id |-> session_id,
                err |-> get_objects(Cur, session_id, FALSE).err,
                repeat |-> FALSE, expired |-> {}, idle |-> 0])

\* The calls on one link object.
Links(l) ==
    /\ link' = l
    /\ UNCHANGED <<now, smvars, dbvars, resp, hist, registrar, transform, called, running>>

LinkForRecord(record) == link.pc # "idle" /\ Links(for_record(link, record))
LinkAddArgs(kwargs) == link.pc # "idle" /\ Links(add_args(link, kwargs))
LinkFinalise == link.pc # "idle" /\ Links(finalise(link))

ReqSessionNew(th, hdr) ==
    Respond(None, "session-new",
            require_auth(AUTH_EDITOR, hdr, Cur, StartSession_get(Cur, th, now)))

ReqSessionSave(hdr, sid) ==
    Respond(None, "session-save",
            require_auth(AUTH_EDITOR, hdr, Cur, CommitSession_get(Cur, sid)))

\* the values of `close` in the query string of /session/rollback/<id>
CloseArgs == {None, "y", "n"}

\* The route's rule is /rollback/<session_id>: the view is called with the
\* path's session_id alone, so `close` keeps its default whatever the query
\* string args holds.
ReqSessionRollback(hdr, sid, args) ==
    Respond(None, "session-rollback",
            require_auth(AUTH_EDITOR, hdr, Cur, RollbackSession_get(Cur, sid, "y", now)))

ReqList(th, hdr, usr, q) ==
    Respond(usr, "list-get",
            require_auth(AUTH_VIEWER, hdr, Cur, handle_paginated_request(Cur, th, q, usr, now)))

ReqListDetailed(th, hdr, usr, q) ==
    Respond(usr, "list-detailed-get",
            require_auth(AUTH_VIEWER, hdr, Cur, handle_paginated_request(Cur, th, q, usr, now)))

ReqGetOne(th, hdr, usr, id) ==
    Respond(usr, "one-get",
            require_auth(AUTH_VIEWER, hdr, Cur, One_get(Cur, th, id, usr, now)))

ReqCreate(th, hdr, usr, body) ==
    Respond(usr, "list-post",
            require_auth(AUTH_EDITOR, hdr, Cur, List_post(Cur, th, body, usr, now)))

ReqUpdate(th, hdr, usr, id, body) ==
    Respond(usr, "one-post",
            require_auth(AUTH_EDITOR, hdr, Cur, One_post(Cur, th, id, body, usr, now)))

ReqDelete(th, hdr, usr, id) ==
    Respond(usr, "one-delete",
            require_auth(AUTH_SUPER, hdr, Cur, One_delete(Cur, th, id, usr, now)))

ReqCustom(hdr, q) ==
    Respond(None, "custom",
            require_auth(AUTH_VIEWER, hdr, Cur, CustomApiResource_get(Cur, q)))

\* no method of the manager has been called from outside a request
NoCall == [op |-> None, id |-> None, err |-> "", repeat |-> FALSE, expired |-> {}, idle |-> 0]

----------------------------------------------------------------------------
(* SessionManager called from two threads.  A thread is inside one method
   at a time and executes it statement by statement; unless the callers
   hold a lock around every call, the other thread may run between any two
   statements. *)

\* A thread's frame: the method, its session_id argument, the statement it
\* is at, the locals of _check_timeouts (`at` for now, `todo` for the ids of
\* the copied timestamps that are due and not yet visited), the id being
\* timed out, cleaned up or stamped, and the exception the method ends
\* with.  `locked` tells whether the callers serialise their calls.  When a
\* method returns or raises, `called` takes the method, its argument and
\* its exception, and the frame is dropped.
NoMethod == [op |-> None, arg |-> None, pc |-> "done", at |-> 0, todo |-> {}, cur |-> None,
             err |-> "", locked |-> FALSE]
NoThreads == [t \in Threads |-> NoMethod]
Inside(t) == running[t].pc # "done"
\* thread t may make a call: it is in no method, and holds the lock if
\* there is one
Free(t) == ~Inside(t) /\ (running[t].locked => \A u \in Threads : ~Inside(u))

\* thread t executes a statement: s is the state it leaves, f its frame
Thread(t, s, f) ==
    /\ Store(s)
    /\ running' = [running EXCEPT ![t] = IF f.pc = "done"
                                        THEN [NoMethod EXCEPT !.locked = f.locked]
                                        ELSE f]
    /\ called' = IF f.pc = "done"
                 THEN [NoCall EXCEPT !.op = f.op, !.id = f.arg, !.err = f.err]
                 ELSE called
    /\ UNCHANGED <<now, resp, hist, registrar, transform, link>>
Enter(t, op, session_id, pc) ==
    [running[t] EXCEPT !.op = op, !.arg = session_id, !.pc = pc, !.err = ""]
\* the method returns or raises
Return(f, err) == [f EXCEPT !.pc = "done", !.err = err]

\* The ids the two threads share, and a whole timeout interval passing.
SharedSessions == {uuid4(1)}
\* a whole timeout interval passes
Lapse ==
    /\ now + timeout_limit <= MaxTime
    /\ now' = now + timeout_limit
    /\ UNCHANGED <<smvars, dbvars, resp, hist, unitvars>>

\* An id a caller can hold: one that a finished get has returned.
Issued(session_id) ==
    /\ \E n \in 1..(next_sid - 1) : session_id = uuid4(n)
    /\ \A u \in Threads : ~(running[u].pc = "stamp" /\ running[u].arg = None
                              /\ running[u].cur = session_id)

\* get is called and reads last_timeout_check for the debounce
ThreadGet(t, session_id) ==
    /\ Free(t)
    /\ session_id = None \/ Issued(session_id)
    /\ session_id = None => uuid4(next_sid) \in SharedSessions
    /\ Thread(t, Cur, IF now - last_timeout_check < timeout_limit
                      THEN Enter(t, "get", session_id, "lookup")
                      ELSE [Enter(t, "get", session_id, "copy") EXCEPT !.at = now])

\* commit_and_close with no membership test
ThreadCommitAndCloseUnchecked(t, session_id) ==
    /\ Free(t)
    /\ Issued(session_id)
    /\ Thread(t, Cur, Enter(t, "commit_and_close", session_id, "commit"))

\* commit_and_close is called and tests the id
ThreadCommitAndClose(t, session_id) ==
    /\ Free(t)
    /\ Issued(session_id)
    /\ Thread(t, Cur, IF session_id \in DOMAIN open_sessions
                      THEN Enter(t, "commit_and_close", session_id, "commit")
                      ELSE Return(Enter(t, "commit_and_close", session_id, "done"),
                                  "ValueError"))

\* cache_record of an update of record 1 is called and makes the bucket if
\* the id has none
ThreadCacheRecord(t, session_id) ==
    /\ Free(t)
    /\ Issued(session_id)
    /\ Thread(t, [Cur EXCEPT !.objs = IF session_id \in DOMAIN @ THEN @
                                      ELSE Put(@, session_id, EmptyLog)],
              Enter(t, "cache_record", session_id, "append"))

\* _check_timeouts after the debounce: the copy of the timestamps, of which
\* the loop acts on the ids that are due, and the assignment after the loop
StepCheckTimeouts(t) ==
    LET f == running[t]
    IN \/ /\ f.pc = "copy"
          /\ Thread(t, Cur, [f EXCEPT !.pc = "sweep",
                                      !.todo = {i \in DOMAIN last_action_timestamps :
                                                  f.at - last_action_timestamps[i]
                                                     >= timeout_limit}])
       \/ /\ f.pc = "sweep"
          /\ f.todo = {}
          /\ Thread(t, [Cur EXCEPT !.chk = f.at], [f EXCEPT !.pc = "lookup", !.at = 0])

\* _do_timeout of the next id that is due, up to its call of
\* _cleanup_session.  The tables keep no insertion order, so the loop may
\* visit the ids in any order.
StepDoTimeout(t) ==
    LET f == running[t]
    IN /\ f.pc = "sweep"
       /\ \E i \in f.todo :
             IF i \notin DOMAIN open_sessions
             THEN Thread(t, Cur, Return(f, "KeyError"))
             ELSE LET h == open_sessions[i]
                  IN Thread(t, session_close(session_rollback(Cur, h), h),
                            [f EXCEPT !.pc = "cleanup", !.cur = i, !.todo = @ \ {i}])

\* _cleanup_session: the membership test and the three pops; it returns
\* into the loop of _check_timeouts or to the end of commit_and_close
StepCleanupSession(t) ==
    LET f == running[t]
    IN \/ /\ f.pc = "cleanup"
          /\ Thread(t, Cur, IF f.cur \notin DOMAIN open_sessions
                            THEN Return(f, "ValueError")
                            ELSE [f EXCEPT !.pc = "pop_open"])
       \/ /\ f.pc = "pop_open"
          /\ IF f.cur \notin DOMAIN open_sessions
             THEN Thread(t, Cur, Return(f, "KeyError"))
             ELSE Thread(t, [Cur EXCEPT !.open = Remove(@, f.cur)],
                         [f EXCEPT !.pc = "pop_timestamps"])
       \/ /\ f.pc = "pop_timestamps"
          /\ IF f.cur \notin DOMAIN last_action_timestamps
             THEN Thread(t, Cur, Return(f, "KeyError"))
             ELSE Thread(t, [Cur EXCEPT !.ts = Remove(@, f.cur)],
                         [f EXCEPT !.pc = "pop_objects"])
       \/ /\ f.pc = "pop_objects"
          /\ Thread(t, [Cur EXCEPT !.objs = Remove(@, f.cur)],
                    IF f.op = "get" THEN [f EXCEPT !.pc = "sweep", !.cur = None]
                    ELSE Return(f, ""))

\* get after _check_timeouts: the membership test, the fetch of the
\* session (or the registration of a new one), the timestamp
StepGet(t) ==
    LET f == running[t]
    IN \/ /\ f.pc = "lookup"
          /\ f.arg # None
          /\ Thread(t, Cur, IF f.arg \in DOMAIN open_sessions
                            THEN [f EXCEPT !.pc = "fetch"]
                            ELSE Return(f, "ValueError"))
       \/ /\ f.pc = "lookup"
          /\ f.arg = None
          /\ Thread(t, [Cur EXCEPT !.open = Put(@, uuid4(next_sid), t), !.nsid = @ + 1],
                    [f EXCEPT !.pc = "stamp", !.cur = uuid4(next_sid)])
       \/ /\ f.pc = "fetch"
          /\ Thread(t, Cur, IF f.arg \in DOMAIN open_sessions
                            THEN [f EXCEPT !.pc = "stamp", !.cur = f.arg]
                            ELSE Return(f, "KeyError"))
       \/ /\ f.pc = "stamp"
          /\ Thread(t, [Cur EXCEPT !.ts = Put(@, f.cur, now)], Return(f, ""))

\* commit_and_close after the test: the fetch of the session with its
\* commit and close, up to the call of _cleanup_session
StepCommitAndClose(t) ==
    LET f == running[t]
    IN /\ f.pc = "commit"
       /\ IF f.arg \notin DOMAIN open_sessions
          THEN Thread(t, Cur, Return(f, "KeyError"))
          ELSE LET h == open_sessions[f.arg]
               IN Thread(t, session_close(session_commit(Cur, h), h),
                         [f EXCEPT !.pc = "cleanup", !.cur = f.arg])

\* cache_record after the bucket is made: the bucket is looked up again for
\* the membership test and the append
StepCacheRecord(t) ==
    LET f == running[t]
    IN /\ f.pc = "append"
       /\ IF f.arg \notin DOMAIN objects
          THEN Thread(t, Cur, Return(f, "KeyError"))
          ELSE Thread(t, cache_record(Cur, f.arg, "UPDATE", endpoint_alias, 1),
                      Return(f, ""))

\* the application before any request
InitProgram ==
    /\ now = 0
    /\ open_sessions = [k \in {} |-> None]
    /\ last_action_timestamps = [k \in {} |-> 0]
    /\ last_timeout_check = 0
    /\ objects = [k \in {} |-> EmptyLog]
    /\ next_sid = 1
    /\ tx = [h \in Threads |-> <<EmptyFn>>]
    /\ storage = EmptyFn
    /\ next_rid = 1
    /\ resp = [code |-> 0, exc |-> "", errors |-> {}, result |-> NoResult, gate |-> "passed"]
    /\ hist = [only_adhoc |-> TRUE, conflicted |-> {}]

Init ==
    /\ InitProgram
    /\ registrar = NoPass
    /\ transform = NoTransform
    /\ link = NoLink
    /\ called = NoCall /\ running = NoThreads

\* The mutating routes and the session endpoints for an authorized client
\* (super-admin passes every gate) at one instant: sessions of the client's
\* and ad-hoc ones, on either worker thread.
MutationBodies == {[name |-> "a"], [name |-> "b"], [id |-> 1, name |-> "a"]}
Next ==
    \/ \E th \in Threads : ReqSessionNew(th, "0")
    \/ \E sid \in SessionIds : ReqSessionSave("0", sid)
    \/ \E sid \in SessionIds : ReqSessionRollback("0", sid, None)
    \/ \E c \in Callers, id \in RecordIds : ReqGetOne(c[1], "0", c[2], id)
    \/ \E c \in Callers, body \in MutationBodies : ReqCreate(c[1], "0", c[2], body)
    \/ \E c \in Callers, body \in MutationBodies : ReqUpdate(c[1], "0", c[2], 1, body)
    \/ \E c \in Callers : ReqDelete(c[1], "0", c[2], 1)

Spec == Init /\ [][Next]_vars

\* Every generated route and every kind of query string and body, for an
\* authorized client on one worker thread.
RouteCallers == {<<"t1", None>>, <<"t1", uuid4(1)>>}
NextRoutes ==
    \/ ReqSessionNew("t1", "0")
    \/ ReqSessionSave("0", uuid4(1))
    \/ ReqSessionRollback("0", uuid4(1), None)
    \/ \E c \in RouteCallers, q \in ListQueries : ReqList(c[1], "0", c[2], q)
    \/ \E c \in RouteCallers, q \in ListQueries : ReqListDetailed(c[1], "0", c[2], q)
    \/ \E c \in RouteCallers, id \in RecordIds : ReqGetOne(c[1], "0", c[2], id)
    \/ \E c \in RouteCallers, body \in Bodies : ReqCreate(c[1], "0", c[2], body)
    \/ \E c \in RouteCallers, body \in Bodies : ReqUpdate(c[1], "0", c[2], 1, body)
    \/ \E c \in RouteCallers : ReqDelete(c[1], "0", c[2], 1)

SpecRoutes == Init /\ [][NextRoutes]_vars

\* The routes that take a payload, under every kind of body, ad-hoc and in a
\* session of the client's.
NextPayload ==
    \/ ReqSessionNew("t1", "0")
    \/ \E c \in RouteCallers, body \in Bodies : ReqCreate(c[1], "0", c[2], body)
    \/ \E c \in RouteCallers, body \in Bodies : ReqUpdate(c[1], "0", c[2], 1, body)

SpecPayload == Init /\ [][NextPayload]_vars

\* The same routes with bodies that set the to-many relation as well.
NextRelations ==
    \/ ReqSessionNew("t1", "0")
    \/ \E c \in RouteCallers, body \in Bodies \cup RelationBodies :
          ReqCreate(c[1], "0", c[2], body)
    \/ \E c \in RouteCallers, body \in Bodies \cup RelationBodies :
          ReqUpdate(c[1], "0", c[2], 1, body)

SpecRelations == Init /\ [][NextRelations]_vars

\* Creates and updates that collide on the unique column, among them a value
\* whose text holds parentheses.
ConflictBodies == {[name |-> "a"], [name |-> OddName]}
NextConflict ==
    \/ ReqSessionNew("t1", "0")
    \/ \E c \in RouteCallers, body \in ConflictBodies : ReqCreate(c[1], "0", c[2], body)
    \/ \E c \in RouteCallers, body \in ConflictBodies : ReqUpdate(c[1], "0", c[2], 1, body)

SpecConflict == Init /\ [][NextConflict]_vars

\* Sessions of the client's that are worked in, read through and rolled back
\* under every value of `close`.
NextRollback ==
    \/ \E th \in Threads : ReqSessionNew(th, "0")
    \/ \E sid \in SessionIds, args \in CloseArgs : ReqSessionRollback("0", sid, args)
    \/ \E c \in Callers : ReqGetOne(c[1], "0", c[2], 1)
    \/ \E c \in Callers : ReqCreate(c[1], "0", c[2], [name |-> "a"])

SpecRollback == Init /\ [][NextRollback]_vars

\* The list routes under every kind of query string, over rows created ad-hoc
\* and in a session of the client's.
NextList ==
    \/ ReqSessionNew("t1", "0")
    \/ \E c \in RouteCallers, n \in Names : ReqCreate(c[1], "0", c[2], [name |-> n])
    \/ \E c \in RouteCallers, q \in ListQueries : ReqList(c[1], "0", c[2], q)
    \/ \E c \in RouteCallers, q \in ListQueries : ReqListDetailed(c[1], "0", c[2], q)
    \/ \E q \in ListQueries : ReqCustom("0", q)

SpecList == Init /\ [][NextList]_vars

\* One generation pass for class "a", under its own name or an alias of the
\* author's, over every graph of three classes.
InitRegistrar ==
    /\ InitProgram
    /\ \E schema \in Schemas, alias \in {"a", "alias"} : registrar = Pass(schema, "a", alias)
    /\ transform = NoTransform
    /\ link = NoLink
    /\ called = NoCall /\ running = NoThreads
NextRegistrar == RegEnter \/ RegField \/ RegResume \/ RegExcept \/ RegReturn

SpecRegistrar == InitRegistrar /\ [][NextRegistrar]_vars

\* Records of a class with scalar fields alone and of one with a to-many
\* relation, whose related rows all exist when the view is taken.
InitTransform ==
    /\ InitProgram
    /\ registrar = NoPass /\ link = NoLink /\ called = NoCall /\ running = NoThreads
    /\ \E cls \in {"scalar", "parent"}, id \in {1, 2}, name \in Names,
          related \in SUBSET RelatedIds :
          \E children \in SUBSET related :
             LET record == [id |-> id, name |-> name,
                            children |-> IF cls = "parent" THEN children ELSE {}]
             IN transform = [cls |-> cls, orig |-> record, record |-> record,
                             related |-> related, view |-> json(NoRecord, cls),
                             pc |-> "record", err |-> ""]
NextTransform ==
    \/ TransformJson
    \/ \E id \in RelatedIds : TransformRelatedDeleted(id)
    \/ \E thread \in Threads : TransformIngest(thread)

SpecTransform == InitTransform /\ [][NextTransform]_vars

\* Lists of up to two ids, the same id twice included, ingested into records
\* whose related rows exist or not.
IdLists == {<<>>} \cup {<<i>> : i \in RelatedIds} \cup {<<i, j>> : i, j \in RelatedIds}
NextListed ==
    \/ \E thread \in Threads, value \in IdLists : TransformListed(thread, value)
    \/ TransformJson

SpecListed == InitTransform /\ [][NextListed]_vars

\* The manager called directly between requests that leave work pending on a
\* handle: creations, and deletions of rows that may not exist.
NextManager ==
    \/ \E thread \in Threads, sid \in SessionIds \cup {None} : CallGet(thread, sid)
    \/ \E sid \in SessionIds : CallCommitAndClose(sid)
    \/ \E c \in Callers, name \in Names : ReqCreate(c[1], "0", c[2], [name |-> name])
    \/ \E c \in Callers : ReqDelete(c[1], "0", c[2], 1)

SpecManager == Init /\ [][NextManager]_vars

\* The mutation log under direct calls, for ids that are open and ids that
\* are not.
LogActions == {"CREATE", "UPDATE", "DELETE"}
LoggedRecords == {1, 2}
LoggedSessions == {uuid4(1), uuid4(2)}
NextLog ==
    \/ CallGet("t1", None)
    \/ \E sid \in LoggedSessions : CallCommitAndClose(sid)
    \/ \E sid \in LoggedSessions, action \in LogActions, rid \in LoggedRecords :
          CallCacheRecord(sid, action, rid)

SpecLog == Init /\ [][NextLog]_vars

\* The manager's methods called as time passes.
NextSweep ==
    \/ Tick
    \/ \E sid \in SessionIds \cup {None} : CallGet("t1", sid)
    \/ \E sid \in SessionIds : CallCommitAndClose(sid)
    \/ \E sid \in SessionIds : CallCacheRecord(sid, "UPDATE", 1)
    \/ \E sid \in SessionIds : CallGetObjects(sid)

SpecSweep == Init /\ [][NextSweep]_vars

\* Links as the models declare them: an endpoint template, a method, and
\* the record attribute (if any) that fills the rule's variable.
RecordArgs == {[k \in {} |-> ""], [k \in {"id"} |-> "id"], [k \in {"id"} |-> "pk"]}
ExtraArgs == {[k \in {"id"} |-> 2], [k \in {"page"} |-> 1]}
InitLinks ==
    /\ InitProgram
    /\ registrar = NoPass /\ transform = NoTransform /\ called = NoCall /\ running = NoThreads
    /\ \E endpoint \in Endpoints, method \in {"POST", "DELETE"}, record_args \in RecordArgs :
          link = ApiLink(endpoint, "edit record", method, record_args)
NextLinks ==
    \/ \E record \in LinkRecords : LinkForRecord(record)
    \/ \E kwargs \in ExtraArgs : LinkAddArgs(kwargs)
    \/ LinkFinalise

SpecLinks == InitLinks /\ [][NextLinks]_vars

\* The links of a model: Meta._links holds the two default ApiLink objects of
\* ApiExposed.Meta, the same objects for every record of every exposed model.
\* A model that declares links of its own has them merged in, sorted by rel.
\* Two stored records of one model, with ids 1 and 2, and one not yet
\* flushed, read and finalise them.
SharedRecords == LinkRecords \cup {"other"}
OwnLinks == {<<>>,
             <<ApiLink("api.{endpoint_alias}-list", "list records", "GET", [k \in {} |-> ""])>>,
             <<ApiLink("api.{tablename}-one", "view record", "GET", [k \in {"id"} |-> "id"])>>}
MetaLinks == <<ApiLink("api.{endpoint_alias}-one", "delete record", "DELETE", [k \in {"id"} |-> "id"]),
               ApiLink("api.{endpoint_alias}-one", "edit record", "POST", [k \in {"id"} |-> "id"])>>
\* the _links property: each link is bound to the record only if it has
\* no record yet, and finalised
links_read(ls, record) ==
    [i \in DOMAIN ls |-> finalise(IF ls[i].record = None THEN for_record(ls[i], record)
                                   ELSE ls[i])]
\* finalise_links(**kwargs)
finalise_links(ls, record, kwargs) ==
    [i \in DOMAIN ls |-> add_args(for_record(ls[i], record), kwargs)]

SharedLinks(ls, op, record) ==
    /\ link' = ls
    /\ called' = [NoCall EXCEPT !.op = op, !.id = record]
    /\ UNCHANGED <<now, smvars, dbvars, resp, hist, registrar, transform, running>>
ReadLinks(record) == SharedLinks(links_read(link, record), "_links", record)
FinaliseLinks(record, kwargs) ==
    SharedLinks(finalise_links(link, record, kwargs), "finalise_links", record)

InitShared ==
    /\ InitProgram
    /\ registrar = NoPass /\ transform = NoTransform /\ called = NoCall /\ running = NoThreads
    /\ \E own \in OwnLinks : link = MetaLinks \o own
NextShared ==
    \/ \E record \in SharedRecords : ReadLinks(record)
    \/ \E record \in SharedRecords, kwargs \in ExtraArgs \cup {[k \in {} |-> 0]} :
          FinaliseLinks(record, kwargs)
SpecShared == InitShared /\ [][NextShared]_vars

\* Two threads calling the manager's methods, statement by statement.
NextThreads ==
    \/ Lapse
    \/ \E t \in Threads :
          \/ \E session_id \in SharedSessions \cup {None} : ThreadGet(t, session_id)
          \/ \E session_id \in SharedSessions : ThreadCommitAndClose(t, session_id)
          \/ \E session_id \in SharedSessions : ThreadCacheRecord(t, session_id)
          \/ StepCheckTimeouts(t)
          \/ StepDoTimeout(t)
          \/ StepCleanupSession(t)
          \/ StepGet(t)
          \/ StepCommitAndClose(t)
          \/ StepCacheRecord(t)
\* the callers either hold a lock around every call or do not
InitThreads ==
    /\ InitProgram
    /\ registrar = NoPass /\ transform = NoTransform /\ link = NoLink /\ called = NoCall
    /\ \E locked \in BOOLEAN :
          running = [t \in Threads |-> [NoMethod EXCEPT !.locked = locked]]
SpecThreads == InitThreads /\ [][NextThreads]_vars

\* Sessions opened and fetched again over more than two timeout intervals.
NextStale ==
    \/ Tock
    \/ \E sid \in SessionIds \cup {None} : CallGet("t1", sid)
    \/ \E sid \in SessionIds : CallCommitAndClose(sid)

SpecStale == Init /\ [][NextStale]_vars

\* Every route under every value of the access-level header: ad-hoc requests,
\* and creates in a session of the client's for the session endpoints to act on.
DefaultQuery == NoArgs
AuthCallers == {<<"t1", None>>, <<"t1", uuid4(1)>>}
NextAuth ==
    \/ \E hdr \in Headers : ReqSessionNew("t1", hdr)
    \/ \E hdr \in Headers : ReqSessionSave(hdr, uuid4(1))
    \/ \E hdr \in Headers : ReqSessionRollback(hdr, uuid4(1), None)
    \/ \E hdr \in Headers : ReqList("t1", hdr, None, DefaultQuery)
    \/ \E hdr \in Headers : ReqListDetailed("t1", hdr, None, DefaultQuery)
    \/ \E hdr \in Headers : ReqGetOne("t1", hdr, None, 1)
    \/ \E c \in AuthCallers, hdr \in Headers : ReqCreate(c[1], hdr, c[2], [name |-> "a"])
    \/ \E hdr \in Headers : ReqUpdate("t1", hdr, None, 1, [name |-> "b"])
    \/ \E hdr \in Headers : ReqDelete("t1", hdr, None, 1)
    \/ \E hdr \in Headers : ReqCustom(hdr, DefaultQuery)

SpecAuth == Init /\ [][NextAuth]_vars

\* The Session Manager against the clock.
NextTime ==
    \/ Tick
    \/ \E th \in Threads : ReqSessionNew(th, "0")
    \/ \E sid \in SessionIds : ReqSessionSave("0", sid)
    \/ \E c \in Callers : ReqGetOne(c[1], "0", c[2], 1)
    \/ \E c \in Callers, body \in {[name |-> "a"], [id |-> 1]} : ReqCreate(c[1], "0", c[2], body)

SpecTime == Init /\ [][NextTime]_vars

----------------------------------------------------------------------------
(* Properties *)

\* the handle a caller's request works on
HandleOf(c) == IF c[2] = None THEN c[1] ELSE open_sessions[c[2]]
\* the rows the mutation log of session sid records as created in it
CreatedIn(sid) ==
    IF sid \in DOMAIN objects
    THEN {objects[sid].CREATE[i].DATA : i \in 1..Len(objects[sid].CREATE)}
    ELSE {}

OpensSession(sid) ==
    \/ \E id \in RecordIds : ReqGetOne("t1", "0", sid, id)
    \/ ReqCreate("t1", "0", sid, [name |-> "a"])
C2_IdleSessionRejected ==
    [][\A sid \in SessionIds :
          (/\ sid \in DOMAIN last_action_timestamps
           /\ now - last_action_timestamps[sid] > timeout_limit
           /\ OpensSession(sid))
          => (sid \notin DOMAIN open_sessions' /\ resp'.code >= 400)]_vars

\* C3: when the sweep expires a session, its handle is rolled back and closed
\* (no row created in the session is left pending on it), its handle entry,
\* activity timestamp and mutation log are discarded, and no row created in
\* that (never saved) session is in storage.
SweepExpires(sid) ==
    /\ last_timeout_check' # last_timeout_check
    /\ sid \in DOMAIN open_sessions
    /\ sid \notin DOMAIN open_sessions'
C3_ExpiredWritesAbsent ==
    [][\A sid \in SessionIds :
          SweepExpires(sid)
          => (/\ CreatedIn(sid) \cap DOMAIN Flat(tx'[open_sessions[sid]]) = {}
              /\ sid \notin DOMAIN last_action_timestamps'
              /\ sid \notin DOMAIN objects'
              /\ CreatedIn(sid) \cap DOMAIN storage' = {})]_vars

\* C4: a well-formed request that names a session id which is not live fails
\* with NotFound (404), on every generated route and on /session/save and
\* /session/rollback.
NamesSession(sid) ==
    \/ ReqSessionSave("0", sid)
    \/ ReqSessionRollback("0", sid, None)
    \/ ReqList("t1", "0", sid, DefaultQuery)
    \/ ReqListDetailed("t1", "0", sid, DefaultQuery)
    \/ ReqGetOne("t1", "0", sid, 1)
    \/ ReqCreate("t1", "0", sid, [name |-> "a"])
    \/ ReqUpdate("t1", "0", sid, 1, [name |-> "a"])
    \/ ReqDelete("t1", "0", sid, 1)
C4_DeadSessionNotFound ==
    [][\A sid \in SessionIds :
          (sid \notin DOMAIN open_sessions /\ NamesSession(sid))
          => (resp'.code = 404 /\ resp'.exc = "NotFound")]_vars

\* C5: the mutations made in a live session of the client's are one batch.
\* A create, update or delete in it neither closes the session nor changes
\* storage; while the session is live none of the rows created in it is in
\* storage; /session/save makes all its pending writes durable and closes it;
\* /session/rollback leaves storage as it was and no write pending.
MutatesIn(sid) ==
    \/ \E body \in MutationBodies : ReqCreate("t1", "0", sid, body)
    \/ \E body \in MutationBodies : ReqUpdate("t1", "0", sid, 1, body)
    \/ ReqDelete("t1", "0", sid, 1)
C5_SessionBatchAtomic ==
    [][\A sid \in SessionIds :
          sid \in DOMAIN open_sessions
          => (/\ CreatedIn(sid) \cap DOMAIN storage = {}
              /\ MutatesIn(sid) => (sid \in DOMAIN open_sessions' /\ storage' = storage)
              /\ ReqSessionSave("0", sid)
                 => (/\ storage' = View(Cur, open_sessions[sid])
                     /\ sid \notin DOMAIN open_sessions')
              /\ ReqSessionRollback("0", sid, None)
                 => (/\ storage' = storage
                     /\ tx'[open_sessions[sid]] = <<EmptyFn>>))]_vars

\* C6: saving a live session whose use was two successful creates answers 200
\* with the session's mutation log, two CREATE entries and empty UPDATE and
\* DELETE buckets, and the session id is not live afterwards.
TwoCreates(sid) ==
    /\ sid \in DOMAIN open_sessions
    /\ sid \in DOMAIN objects
    /\ Len(objects[sid].CREATE) = 2
    /\ objects[sid].UPDATE = <<>>
    /\ objects[sid].DELETE = <<>>
C6_SaveReturnsTwoCreates ==
    [][\A sid \in SessionIds :
          (TwoCreates(sid) /\ ReqSessionSave("0", sid))
          => (/\ resp'.code = 200
              /\ resp'.result.log = objects[sid]
              /\ sid \notin DOMAIN open_sessions')]_vars

\* C7: a create whose unique value a row visible to its session already holds
\* is refused with Conflict (409) and leaves storage and the session's pending
\* rows as they were, for ad-hoc sessions and for the client's; and saving a
\* session a create was refused in makes the rows created in it durable.
NamesOf(v) == {v[r].name : r \in DOMAIN v}
C7_DuplicateConflicts ==
    [][/\ \A c \in Callers, n \in Names :
             (/\ c[2] = None \/ c[2] \in DOMAIN open_sessions
              /\ n \in NamesOf(View(Cur, HandleOf(c)))
              /\ ReqCreate(c[1], "0", c[2], [name |-> n]))
             => (/\ resp'.code = 409
                 /\ storage' = storage
                 /\ Live(Overlay(storage', Flat(tx'[HandleOf(c)]))) = View(Cur, HandleOf(c)))
       /\ \A sid \in hist.conflicted :
             (sid \in DOMAIN open_sessions /\ ReqSessionSave("0", sid))
             => (/\ resp'.code = 200
                 /\ \A rid \in CreatedIn(sid) \cap DOMAIN View(Cur, open_sessions[sid]) :
                       rid \in DOMAIN storage')]_vars

\* C8: a create or an update whose payload holds a read-only field (the
\* primary key or the links field) is refused with BadRequest (400) naming each
\* such field, and leaves storage, every handle's pending writes and the
\* Session Manager as they were.
ReadOnlyPosted(body) == DOMAIN body \cap {"id", "_links"}
C8_ReadOnlyRefused ==
    [][\A c \in RouteCallers, body \in Bodies :
          (/\ ReadOnlyPosted(body) # {}
           /\ \/ ReqCreate(c[1], "0", c[2], body)
              \/ ReqUpdate(c[1], "0", c[2], 1, body))
          => (/\ resp'.code = 400
              /\ resp'.exc = "BadRequest"
              /\ \A k \in ReadOnlyPosted(body) : <<"is read-only", k>> \in resp'.errors
              /\ UNCHANGED <<smvars, dbvars>>)]_vars

\* a read-only field was refused while a session was open with a write pending
\* and a row in storage
C8_Witness ==
    /\ resp.code = 400
    /\ <<"is read-only", "id">> \in resp.errors
    /\ storage # EmptyFn
    /\ \E sid \in DOMAIN open_sessions : Flat(tx[open_sessions[sid]]) # EmptyFn

\* the routes, the requests the authorization model sends to each, and the
\* level each requires
Routes == {"session-new", "session-save", "session-rollback", "list-get",
           "list-detailed-get", "one-get", "list-post", "one-post", "one-delete", "custom"}
AtRoute(route, hdr) ==
    CASE route = "session-new" -> ReqSessionNew("t1", hdr)
      [] route = "session-save" -> ReqSessionSave(hdr, uuid4(1))
      [] route = "session-rollback" -> ReqSessionRollback(hdr, uuid4(1), None)
      [] route = "list-get" -> ReqList("t1", hdr, None, DefaultQuery)
      [] route = "list-detailed-get" -> ReqListDetailed("t1", hdr, None, DefaultQuery)
      [] route = "one-get" -> ReqGetOne("t1", hdr, None, 1)
      [] route = "list-post" ->
            \E c \in AuthCallers : ReqCreate(c[1], hdr, c[2], [name |-> "a"])
      [] route = "one-post" -> ReqUpdate("t1", hdr, None, 1, [name |-> "b"])
      [] route = "one-delete" -> ReqDelete("t1", hdr, None, 1)
      [] route = "custom" -> ReqCustom(hdr, DefaultQuery)
RequiredLevel(route) ==
    CASE route \in {"list-get", "list-detailed-get", "one-get", "custom"} -> 2
      [] route \in {"list-post", "one-post", "session-new", "session-save",
                    "session-rollback"} -> 1
      [] route = "one-delete" -> 0

\* C9: on every route, a request whose access-level header is missing or
\* numerically greater than the route's required level is answered
\* Unauthorized (401) and leaves the Session Manager (open sessions, activity
\* timestamps, mutation logs, last sweep, id sequence) and storage unchanged.
C9_GateBeforeLogic ==
    [][\A route \in Routes, hdr \in Headers :
          (/\ hdr = None \/ (hdr \in IntLiterals /\ int(hdr) > RequiredLevel(route))
           /\ AtRoute(route, hdr))
          => (/\ resp'.code = 401
              /\ resp'.exc = "Unauthorized"
              /\ UNCHANGED <<smvars, dbvars>>)]_vars

\* a request was refused while a session was open and a row was in storage
C9_Witness ==
    /\ resp.code = 401
    /\ resp.gate = "refused"
    /\ DOMAIN open_sessions # {}
    /\ storage # EmptyFn

\* C10: on every route the handler is entered exactly when the header is
\* present, numeric and <= the route's required level: viewer (2) for the GETs
\* of the model routes and the custom endpoints, editor (1) for create, update
\* and the three session endpoints, super-admin (0) for delete. No request is
\* answered with its handler entered when that condition fails, or refused
\* when it holds.
Granted(route, hdr) ==
    hdr # None /\ hdr \in IntLiterals /\ int(hdr) <= RequiredLevel(route)
C10_GrantedIffLevel ==
    [][\A route \in Routes, hdr \in Headers :
          (Granted(route, hdr) # (resp'.gate = "passed")) => ~AtRoute(route, hdr)]_vars

\* a create passed the gate and the record it made was deleted through it too
C10_Witness ==
    /\ resp.gate = "passed"
    /\ resp.code = 200
    /\ resp.result.record = 1
    /\ next_rid > 1
    /\ 1 \notin DOMAIN storage
    /\ \A h \in Threads : 1 \notin DOMAIN Flat(tx[h])

\* C11: a get-one, an update or a delete of a record id that does not exist
\* (for the session the request works in) is answered NotFound (404), never
\* another kind of error.
AsksForRecord(c, id) ==
    \/ ReqGetOne(c[1], "0", c[2], id)
    \/ ReqUpdate(c[1], "0", c[2], id, [name |-> "a"])
    \/ ReqDelete(c[1], "0", c[2], id)
C11_MissingRecordNotFound ==
    [][\A c \in RouteCallers :
          (/\ c[2] = None \/ c[2] \in DOMAIN open_sessions
           /\ 1 \notin DOMAIN View(Cur, HandleOf(c))
           /\ AsksForRecord(c, 1))
          => (resp'.code = 404 /\ resp'.exc = "NotFound")]_vars

\* C12: a create or an update (of an existing record) whose payload lists, for
\* the to-many field, an identifier that matches no related row is refused
\* with BadRequest (400) naming exactly the identifiers that match none.
MissingRelated(body) == {body.children[i] : i \in 1..Len(body.children)} \ {1}
C12_UnresolvedRelationRefused ==
    [][\A c \in RouteCallers, body \in RelationBodies :
          (/\ MissingRelated(body) # {}
           /\ c[2] = None \/ c[2] \in DOMAIN open_sessions
           /\ \/ ReqCreate(c[1], "0", c[2], body)
              \/ (1 \in DOMAIN View(Cur, HandleOf(c)) /\ ReqUpdate(c[1], "0", c[2], 1, body)))
          => (/\ resp'.code = 400
              /\ resp'.exc = "BadRequest"
              /\ resp'.errors = {<<"Could not find children", str(i)>> :
                                    i \in MissingRelated(body)})]_vars

\* C13: when a create or an update fails with InternalServerError (500), the
\* nested transaction scope begun for it has been rolled back: the handle is
\* left with the scopes and the pending writes it had before the request.
C13_FailedMutationRolledBack ==
    [][\A c \in RouteCallers, body \in Bodies \cup RelationBodies :
          (/\ resp'.code = 500
           /\ resp'.exc = "InternalServerError"
           /\ c[2] = None \/ c[2] \in DOMAIN open_sessions
           /\ \/ ReqCreate(c[1], "0", c[2], body)
              \/ ReqUpdate(c[1], "0", c[2], 1, body))
          => (/\ Len(tx'[HandleOf(c)]) = Len(tx[HandleOf(c)])
              /\ Flat(tx'[HandleOf(c)]) = Flat(tx[HandleOf(c)]))]_vars

\* C14: a create or an update that sets the unique column to a value another
\* row visible to its session holds is answered Conflict (409), whatever the
\* text of the value makes the driver's detail look like.
Collides(c, body) ==
    \/ /\ body.name \in NamesOf(View(Cur, HandleOf(c)))
       /\ ReqCreate(c[1], "0", c[2], body)
    \/ /\ 1 \in DOMAIN View(Cur, HandleOf(c))
       /\ \E r \in DOMAIN View(Cur, HandleOf(c)) \ {1} : View(Cur, HandleOf(c))[r].name = body.name
       /\ ReqUpdate(c[1], "0", c[2], 1, body)
C14_UniqueViolationConflicts ==
    [][\A c \in RouteCallers, body \in ConflictBodies :
          ((c[2] = None \/ c[2] \in DOMAIN open_sessions) /\ Collides(c, body))
          => (resp'.code = 409 /\ resp'.exc = "Conflict")]_vars

\* C15: a rollback of a live session with `close` left at its default closes
\* the session: its id is no longer live in the Session Manager afterwards
\* (so that a later request naming it is rejected).
C15_RollbackClosesSession ==
    [][\A sid \in SessionIds :
          (sid \in DOMAIN open_sessions /\ ReqSessionRollback("0", sid, None))
          => sid \notin DOMAIN open_sessions']_vars

\* C16: a rollback with close=n that succeeds keeps the session open and
\* reports its id in the response's info.session.
C16_RollbackKeepsSessionOpen ==
    [][\A sid \in SessionIds :
          (sid \in DOMAIN open_sessions /\ ReqSessionRollback("0", sid, "n"))
          => (resp'.code = 200
              => /\ sid \in DOMAIN open_sessions'
                 /\ resp'.result.session = sid)]_vars

\* the rows a caller's list request with query string q matches
MatchedBy(c, q) ==
    LET v == View(Cur, HandleOf(c))
        filtered == Matching(v, remaining_args(q))
    IN IF arg(q, "_query") = None THEN filtered
       ELSE generic_search(v, filtered, arg(q, "_query"))
\* query strings that differ in the pagination window at most
SameButWindow(q1, q2) ==
    /\ DOMAIN q1 \ {"_page", "_pagelength"} = DOMAIN q2 \ {"_page", "_pagelength"}
    /\ \A k \in DOMAIN q1 \ {"_page", "_pagelength"} : q1[k] = q2[k]
\* literals of the integers from 1 on
PositiveLiterals == {x \in IntLiterals : int(x) >= 1}

\* C17: a list request with _page=1 and _pagelength=N, N >= 1, that succeeds
\* returns at most N items, and its total_results is the number of all rows
\* matching its filters, the same number every successful request with the
\* same filters and another page or page length reports.
C17_PageBoundedTotalWhole ==
    [][\A c \in RouteCallers, q \in ListQueries :
          (/\ arg(q, "_page") = "1"
           /\ arg(q, "_pagelength") \in PositiveLiterals
           /\ (c[2] # None => c[2] \in DOMAIN open_sessions)
           /\ ReqList(c[1], "0", c[2], q)
           /\ resp'.code = 200)
          => /\ Cardinality(resp'.result.page) <= int(q["_pagelength"])
             /\ resp'.result.page \subseteq MatchedBy(c, q)
             /\ resp'.result.total_results = Cardinality(MatchedBy(c, q))
             /\ \A q2 \in ListQueries :
                   LET r2 == handle_paginated_request(Cur, c[1], q2, c[2], now)
                   IN (SameButWindow(q, q2) /\ r2.code = 200)
                      => r2.result.total_results = resp'.result.total_results]_vars

\* a first page of one item has been returned out of two matching rows
C17_Witness ==
    /\ resp.code = 200
    /\ Cardinality(resp.result.page) = 1
    /\ resp.result.total_results = 2
    /\ resp.result.total_pages = 2

\* a caller that names no session, or a live one
LiveCaller(c) == c[2] = None \/ c[2] \in DOMAIN open_sessions
\* _page or _pagelength is given and is not the literal of a positive integer
BadPagination(q) ==
    \/ arg(q, "_page") # None /\ arg(q, "_page") \notin PositiveLiterals
    \/ arg(q, "_pagelength") # None /\ arg(q, "_pagelength") \notin PositiveLiterals
PaginationRefused(r) ==
    r.code = 400 /\ r.exc = "BadRequest" /\ r.errors = {<<"pagination", None>>}

\* C18: a list request is refused with the pagination ValidationError exactly
\* when its _page or its _pagelength is given and is not a positive integer.
C18_PaginationValidated ==
    [][\A c \in RouteCallers, q \in ListQueries :
          (LiveCaller(c) /\ ReqList(c[1], "0", c[2], q))
          => (BadPagination(q) <=> PaginationRefused(resp'))]_vars

\* a list request that gets as far as its filters: integer pagination values,
\* a sort attribute of the model, no session or a live one
ReachesFilters(c, q) ==
    /\ pagination_args(q).err = ""
    /\ arg(q, "_sortby") \in model_attrs \cup {None}
    /\ LiveCaller(c)
FiltersRefused(r, keys) ==
    r.code = 400 /\ r.exc = "BadRequest" /\ r.errors = {<<"not found", k>> : k \in keys}

C20_HandlesExclusive ==
    \A a, b \in DOMAIN open_sessions : a # b => open_sessions[a] # open_sessions[b]

\* the classes a class reaches through one or more of its nested-model fields
RECURSIVE Reach(_, _, _)
Reach(schema, from, n) ==
    IF n = 0 THEN from
    ELSE Reach(schema, from \cup UNION {schema.refs[m] : m \in from}, n - 1)
After(schema, m) == Reach(schema, schema.refs[m], Cardinality(ModelNames))
\* the graph of the class the pass is for holds a cycle
Cyclic(schema, model) == \E m \in {model} \cup After(schema, model) : m \in After(schema, m)
Fetchable(schema) == \A m \in ModelNames : "bad_prop" \notin schema.props[m]

\* C21: a pass over a cyclic graph of classes whose hybrid properties are all
\* fit for the API raises nothing: no exception is ever pending in it.
C21_CyclicRegistrationReturns ==
    (Cyclic(registrar.schema, "a") /\ Fetchable(registrar.schema)) => registrar.exc = ""

\* the class registered under a name of the namespace
ClassOf(n) == IF n \in ModelNames THEN n ELSE "a"
Registered(r) == {n \in ModelNames \cup {"alias"} : <<n, "-payload">> \in DOMAIN r.models}

\* C22: the payload schema registered for a class has the fields of its
\* full-record schema less the read-only fields and the hybrid properties
\* without a setter; id and _links are never among them, and each payload
\* field is a full-record field.
C22_PayloadIsWritableSubset ==
    \A n \in Registered(registrar) :
        LET payload == registrar.models[<<n, "-payload">>]
            full == registrar.models[<<n, "">>]
            computed == registrar.schema.props[ClassOf(n)] \cap {"ro_prop"}
        IN /\ payload = (full \ meta_read_only_fields(registrar.schema)) \ computed
           /\ payload \cap {"id", "_links"} = {}
           /\ payload \subseteq full

\* a class with both kinds of hybrid property and a read-only field of its
\* author's has been registered
C22_Witness ==
    /\ "a" \in Registered(registrar)
    /\ {"ro_prop", "rw_prop", "name"} \subseteq registrar.models[<<"a", "">>]
    /\ "name" \in registrar.schema.read_only
    /\ registrar.models[<<"a", "-payload">>] = {"rw_prop"}

NoRepeat(q) == \A i, j \in 1..Len(q) : q[i] = q[j] => i = j

\* C29: within one pass no name is registered twice and none has its fields
\* expanded twice, whatever the graph of classes: a target whose name the
\* namespace holds is reused.
C29_RegisteredOnce == NoRepeat(registrar.built) /\ NoRepeat(registrar.expanded)

\* a pass over a diamond has returned: "c", the target of both "a" and "b",
\* was registered by the first of them and reused by the other
C29_Witness ==
    /\ registrar.stack = <<>> /\ registrar.exc = ""
    /\ registrar.schema.refs["a"] = {"b", "c"}
    /\ registrar.schema.refs["b"] = {"c"}
    /\ registrar.built = <<"c", "b", "a">>

C24_CommitAndCloseCommitsAndForgets ==
    [][\A sid \in SessionIds :
         CallCommitAndClose(sid) =>
            IF sid \in DOMAIN open_sessions
            THEN /\ called'.err = ""
                 /\ storage' = Live(Overlay(storage, Flat(tx[open_sessions[sid]])))
                 /\ tx'[open_sessions[sid]] = <<EmptyFn>>
                 /\ sid \notin DOMAIN open_sessions'
                 /\ sid \notin DOMAIN last_action_timestamps'
                 /\ sid \notin DOMAIN objects'
            ELSE /\ called'.err = "ValueError"
                 /\ UNCHANGED <<smvars, dbvars>>]_vars

\* C25: no bucket of any session's mutation log holds the same entry twice.
C25_NoDuplicateLogEntry ==
    \A sid \in DOMAIN objects : \A action \in LogActions :
        \A i, j \in 1..Len(objects[sid][action]) :
            objects[sid][action][i] = objects[sid][action][j] => i = j

\* a record logged again under the same kind in a session that holds another
\* record in the same bucket
C25_Witness ==
    /\ called.op = "cache_record" /\ called.repeat
    /\ called.id \in DOMAIN open_sessions
    /\ \E action \in LogActions : Len(objects[called.id][action]) = 2

\* C26: cache_record with an id that is not an open session raises ValueError
\* and leaves the mutation log as it was.
C26_CacheRecordRefusesUnknownId ==
    [][\A sid \in LoggedSessions, action \in LogActions, rid \in LoggedRecords :
         (sid \notin DOMAIN open_sessions /\ CallCacheRecord(sid, action, rid))
         => /\ called'.err = "ValueError"
            /\ objects' = objects]_vars

\* C27: every successful get leaves the returned id open with its timestamp
\* at the current time, and no step other than its own commit_and_close
\* removes a session whose last action is less than the timeout ago: a
\* session fetched again at shorter intervals is never expired.
C27_OpenRefreshesAndKeepsAlive ==
    [][/\ \A sid \in SessionIds \cup {None} :
            (called'.op = "get" /\ called'.err = "" /\ CallGet("t1", sid))
            => /\ called'.id \in DOMAIN open_sessions'
               /\ last_action_timestamps'[called'.id] = now
       /\ \A sid \in DOMAIN open_sessions :
            (sid \notin DOMAIN open_sessions'
             /\ now - last_action_timestamps[sid] < timeout_limit)
            => CallCommitAndClose(sid)]_vars

\* a get of an existing session whose sweep expired another session and kept
\* this one, which had been fetched within the timeout
C27_Witness ==
    /\ called.op = "get" /\ called.err = ""
    /\ called.expired # {} /\ called.id \notin called.expired
    /\ called.id \in DOMAIN open_sessions
    /\ last_action_timestamps[called.id] = now

\* C28: the sweep's body runs (and records the time) only in a call of get,
\* only when the timeout has passed since it last ran or since construction.
C28_SweepDebounced ==
    [][last_timeout_check' # last_timeout_check
       => /\ now - last_timeout_check >= timeout_limit
          /\ last_timeout_check' = now
          /\ \E sid \in SessionIds \cup {None} : CallGet("t1", sid)]_vars

\* a sweep has run, and since then time has passed and the manager's other
\* methods have been called without another sweep
C28_Witness ==
    /\ last_timeout_check >= timeout_limit
    /\ now > last_timeout_check
    /\ called.op \in {"commit_and_close", "cache_record", "get_objects"}

LinkFails ==
    \/ link.record = None
    \/ \E k \in DOMAIN link.record_args : link.record_args[k] \notin Attributes
    \/ format(link.endpoint).err # ""
    \/ url_for(format(link.endpoint).endpoint, finalise_try(link).kwargs).err # ""

\* C30: finalise raises nothing; on a link with no record, with a record
\* attribute that does not resolve, or whose URL cannot be built, it returns
\* a link whose href describes the error and whose rel and method are null.
C30_FinaliseDegrades ==
    [][LinkFinalise
       => /\ link'.exc = ""
          /\ LinkFails => /\ link'.result.href.error # ""
                          /\ link'.result.rel = None
                          /\ link'.result.method = None]_vars

\* a link bound to a record that has no id yet has been finalised: the URL
\* could not be built
C30_Witness ==
    /\ link.pc = "finalised"
    /\ link.record = "unsaved"
    /\ link.result.href.error = "BuildError"
    /\ link.result.rel = None

\* C32: the open-session table and the timestamp table hold the same ids,
\* and every id with a mutation log is an open session.
C32_TablesAgree ==
    /\ DOMAIN open_sessions = DOMAIN last_action_timestamps
    /\ DOMAIN objects \subseteq DOMAIN open_sessions

\* C33: get never returns an existing session whose last action is two
\* timeout intervals or more in the past.
C33_StalenessBounded ==
    [][\A sid \in DOMAIN open_sessions :
         (called'.op = "get" /\ called'.err = "" /\ called'.id = sid
          /\ now - last_action_timestamps[sid] >= 2 * timeout_limit)
         => ~CallGet("t1", sid)]_vars

\* a session idle for a timeout interval or more was returned, the debounce
\* having kept the sweep from running; and time has gone past two intervals
C33_Witness ==
    /\ called.op = "get" /\ called.err = ""
    /\ called.idle >= timeout_limit
    /\ called.expired = {}
    /\ now >= 2 * timeout_limit

\* C34: ingesting a list of ids for a to-many relation succeeds whenever
\* every id of the list is the id of a related row, the same id listed twice
\* included.
C34_ExistingIdsIngest ==
    (/\ transform.pc = "listed"
     /\ \A i \in 1..Len(transform.view.children) :
           transform.view.children[i] \in transform.related)
    => transform.err = ""

\* C35: an update in a live session of the client's that fails (400, 409 or
\* 500) leaves none of its assignments pending: the handle's pending writes
\* are what they were before the request.
C35_FailedUpdateLeavesNothingPending ==
    [][\A sid \in SessionIds, body \in Bodies \cup RelationBodies :
          (/\ resp'.code \in {400, 409, 500}
           /\ sid \in DOMAIN open_sessions
           /\ 1 \in DOMAIN View(Cur, open_sessions[sid])
           /\ ReqUpdate("t1", "0", sid, 1, body))
          => Flat(tx'[open_sessions[sid]]) = Flat(tx[open_sessions[sid]])]_vars

\* C36: the mutation log of a live session lists only work that can still
\* be committed: every row get_objects lists as created in the session is
\* pending on the session's handle (or already in storage), never rolled back.
C36_LogListsLiveWork ==
    \A sid \in DOMAIN open_sessions :
        LET log == get_objects(Cur, sid, FALSE).result
        IN \A i \in 1..Len(log.CREATE) :
              log.CREATE[i].DATA \in DOMAIN Flat(tx[open_sessions[sid]]) \cup DOMAIN storage

\* C37: a list request refused for a _page or _pagelength that is not a
\* positive integer or for a _sortby that is no attribute, and a create or an
\* update refused by the validation of its payload, leave the Session Manager
\* as it was: no session opened, no sweep.
BadSort(q) == arg(q, "_sortby") \notin model_attrs \cup {None}
C37_RefusedBeforeSession ==
    [][\A c \in RouteCallers :
          /\ \A q \in ListQueries :
                (/\ BadPagination(q) \/ BadSort(q)
                 /\ resp'.code >= 400
                 /\ ReqList(c[1], "0", c[2], q) \/ ReqListDetailed(c[1], "0", c[2], q))
                => UNCHANGED smvars
          /\ \A body \in Bodies :
                (/\ validate_args(body) # {}
                 /\ ReqCreate(c[1], "0", c[2], body) \/ ReqUpdate(c[1], "0", c[2], 1, body))
                => UNCHANGED smvars]_vars

\* C38: links are isolated per record: whatever finalise_links calls and
\* _links reads came before, the links a record reports on a _links read
\* resolve from that record's own id, with nothing in the query string that
\* the record was not given.
C38_LinksIsolated ==
    called.op = "_links"
    => \A i \in DOMAIN link :
          /\ link[i].record = called.id
          /\ (link[i].result.href.error = "" /\ "id" \in DOMAIN link[i].record_args)
             => link[i].result.href.id = getattr(called.id, link[i].record_args.id)

\* C31: the Session Manager is not safe for concurrent use without an
\* external lock.  A method that fails with an error outside its contract
\* (a KeyError from a table that lost the id under it), and open-session
\* and timestamp tables that disagree while no thread is inside a method,
\* happen only when the callers hold no lock around their calls.
Quiet == \A t \in Threads : ~Inside(t)
C31_UnsafeWithoutLock ==
    (\/ called.err = "KeyError"
     \/ Quiet /\ DOMAIN open_sessions # DOMAIN last_action_timestamps)
    => \A t \in Threads : ~running[t].locked
\* a sweep has failed on a timestamp left behind for a session that a
\* commit_and_close in the other thread removed
C31_Witness ==
    /\ \A t \in Threads : ~running[t].locked
    /\ Quiet
    /\ called.op = "get" /\ called.err = "KeyError"
    /\ DOMAIN last_action_timestamps \ DOMAIN open_sessions # {}

====
